---- MODULE Spec2Model ----
(***************************************************************************)
(* A model of go-safeconcurrency: the worker pool (workpool), the event   *)
(* loop built on a one-worker pool and a ChannelLock (eventloop), the     *)
(* generator with its emitter (generator, results) and the ChannelLock    *)
(* (internal/safeconcurrencysync).                                         *)
(*                                                                         *)
(* Every goroutine is a process with a program counter; every channel     *)
(* operation, atomic operation and select is one step.  A select with     *)
(* several ready cases is a nondeterministic choice between them.         *)
(***************************************************************************)
EXTENDS Integers, Sequences, FiniteSets, TLC

\* ------------------------------------------------------------------------
\* Bounds of the model
\* ------------------------------------------------------------------------
\* goroutines calling Send or a submit helper, each making one call
NSenders == 2
\* largest capacity of a request queue or of a result channel
MaxBuffer == 1
\* largest number of workers of a pool
MaxWorkers == 2
\* largest number of values a streaming task emits
MaxEmit == 2

NSubmitters == 1
Senders == 1 .. NSenders
Submitters == 1 .. NSubmitters
NLockers == 2
MaxRounds == 2
MaxValues == 5
MaxCloses == 2
NStarters == 2
NClosers == 2
NDrainers == 2
NGenWaiters == 2
Lockers == 1 .. NLockers
Starters == 1 .. NStarters
Closers == 1 .. NClosers
Drainers == 1 .. NDrainers
GenWaiters == 1 .. NGenWaiters
NWaiters == 1
Waiters == 1 .. NWaiters
Workers == 1 .. MaxWorkers
MaxQueue == 2
MaxObjects == 4
MaxSnapshots == 2
MaxMapValue == 2

\* ------------------------------------------------------------------------
\* State
\* ------------------------------------------------------------------------
VARIABLES
    \* pool (workpool): fields of the pool struct
    concurrency,    \* pool.concurrency
    resource,       \* pool.resource: the loop's snapshot pointer, or nil
    bufferCap,      \* capacity of pool.requests
    requests,       \* pool.requests: the buffered tasks, oldest first
    closed,         \* pool.requests has been closed (pool.closeOnce has run)
    started,        \* pool.started
    wg,             \* pool.wg: the WaitGroup counter
    wPc,            \* position of each worker goroutine
    wTask,          \* the task a worker has received (0: none)
    wSnap,          \* eventWrapper.Execute: the local variable snapshot
    wNext,          \* eventWrapper.Execute: the local variable nextSnapshot
    \* Close callers
    closePc,        \* position of the goroutine calling Close
    closeStarted,   \* history: pool.started when that Close call began
    \* event loop (eventloop): fields of the eventLoop struct
    snapshotPtr,    \* eventLoop.snapshotPtr: the snapshot it points to
    expired,        \* generations of the snapshots whose expiration is closed
    done,           \* eventLoop.done is closed
    generation,     \* eventLoop.generation
    lockChannel,    \* ChannelLock.channel: number of tokens in it (0 or 1)
    \* goroutines calling Send, a submit helper, or sending on Requests()
    cPc,            \* position of each caller
    cCtx,           \* the caller's context is cancelled
    cAtCall,        \* history: the context was cancelled when the call began
    cResult,        \* the GenerationID the call returned (0: none)
    cKind,          \* the function the caller called
    cRet,           \* what the submit helper returned
    childCtx,       \* SubmitStreamingBuffered: the derived context is cancelled
    cbLog,          \* SubmitStreamingBuffered: the values the callback was given
    \* the wrapped task of each caller (workpool/task)
    rCap,           \* capacity of the task's result channel
    tResults,       \* the task's result channel: the buffered values
    tResClosed,     \* the task's result channel is closed
    tErr,           \* the shared error slot (*err)
    tExec,          \* number of times the task's Execute was called
    nEmit,          \* number of values the streaming task emits
    emitted,        \* number of Emit calls of the task that returned nil
    \* history of the loop worker
    dispatchLog,    \* the Dispatch calls made: <<event, generation argument>>
    published,      \* the snapshots stored: <<event, generation of the snapshot>>
    \* callers of WaitForGeneration and SendAndWait (eventloop)
    wfgGen,         \* WaitForGeneration: the parameter gen (0: not called)
    wfgSnapshot,    \* WaitForGeneration: the local variable snapshot
    wfgRet,         \* what WaitForGeneration returned
    \* the goroutine of WatchState (eventloop)
    watchPc,        \* position of the watchLoop goroutine
    watchSnap,      \* watchLoop: the local variable snap
    watchCtx,       \* the context given to WatchState is cancelled
    watchChild,     \* watchLoop: the context it derived is cancelled
    watchDone,      \* the channel WatchState returned is closed
    watchLog,       \* history: the snapshots the watcher was called with
    watchRunning,   \* number of watcher calls in progress
    watchStopped,   \* history: a watcher call returned false
    watchInitial,   \* history: the snapshot current when watchLoop began
    watchAtCall,    \* history: the generation current when WatchState was called
    \* generator (generator): fields of the generator struct
    gCap,           \* capacity of generator.results
    gResults,       \* generator.results: the buffered values, oldest first
    gResClosed,     \* generator.results is closed (emitter.closeOnce has run)
    gDone,          \* generator.done is closed
    gErr,           \* generator.err
    gStarted,       \* generator.started
    gCtx,           \* the context given to Start is cancelled
    gPc,            \* position of the goroutine running startInner
    gValues,        \* testRunner.values: the producer emits 1 .. gValues
    gNext,          \* testRunner.Run: the value the range loop is at
    \* the consumer of the generator (TestGeneratorSendsAllValues)
    rPc,            \* position of the consumer
    received,       \* the values the consumer received, in order
    waitRet,        \* what gen.Wait() returned
    gRunRet,        \* history: what producer.Run returned ("none": not yet)
    gOnce,          \* emitter.closeOnce has run
    gCloseCount,    \* history: number of times close(e.results) was executed
    gExtra,         \* number of further Emitter.Close calls made
    gCancelEarly,   \* history: the context was cancelled before any receive
    gWaitRet,       \* what gen.Wait() returned to each further caller
    \* Emit calls (results)
    tPre,           \* history: the task's Emit found its context cancelled at once
    gPre,           \* history: the producer's Emit found its context cancelled at once
    \* goroutines using a ChannelLock of their own accord
    lPc,            \* position of each goroutine
    lCtx,           \* the goroutine's context is cancelled
    lCount,         \* number of critical sections the goroutine completed
    \* goroutines calling Start and Close of their own accord
    sPc,            \* position of each goroutine calling Start
    launched,       \* number of goroutines the Start calls launched
    kPc,            \* position of each goroutine calling pool.Close
    closeCount,     \* number of times close(p.requests) ran
    \* values of single-value tasks (workpool)
    tRunRet,        \* history: the error the task's Execute returned
    cGot,           \* Submit: the result received from Results()
    cValue,         \* the value Submit returned
    cAtSend,        \* history, while Submit waits: the context was cancelled at its send
    cbLast,         \* history: what the last call of the callback returned
    \* goroutines calling Drain on a TaskResult (workpool/task)
    dPc,            \* position of each goroutine
    dTask,          \* the call whose TaskResult the goroutine drains
    drained,        \* history: what the Drain calls on each TaskResult returned
    \* map and slice snapshots (eventloop/snapshot) and the maps of their user
    heap,           \* the maps and slices allocated, by address
    refs,           \* the addresses of the maps the user of the snapshots holds
    snaps           \* the snapshots made: generation, address of the state, expiration

poolVars == <<concurrency, resource, bufferCap, requests, closed, started, wg, wPc, wTask>>
closeVars == <<closePc, closeStarted>>
loopVars == <<snapshotPtr, expired, done, generation, lockChannel, wSnap, wNext,
              dispatchLog, published>>
callVars == <<cPc, cCtx, cAtCall, cResult>>
taskVars == <<cKind, cRet, childCtx, cbLog, rCap, tResults, tResClosed, tErr, tExec,
              nEmit, emitted>>

waitVars == <<wfgGen, wfgSnapshot, wfgRet>>
watchVars == <<watchPc, watchSnap, watchCtx, watchChild, watchDone, watchLog,
               watchRunning, watchStopped, watchInitial, watchAtCall>>
genAux == <<gRunRet, gOnce, gCloseCount, gExtra, gCancelEarly, gWaitRet>>
genVars == <<gCap, gResults, gResClosed, gDone, gErr, gStarted, gCtx, gPc,
             gValues, gNext, rPc, received, waitRet, genAux>>
lockerVars == <<lPc, lCtx, lCount>>
emitVars == <<tPre, gPre>>
lifeVars == <<sPc, launched, kPc, closeCount>>
retVars == <<tRunRet, cGot, cValue, cAtSend, cbLast>>
drainVars == <<dPc, dTask, drained>>
mapVars == <<heap, refs, snaps>>
vars == <<poolVars, closeVars, loopVars, callVars, taskVars, genVars, lockerVars,
          waitVars, watchVars, emitVars, lifeVars, retVars, drainVars, mapVars>>

\* ------------------------------------------------------------------------
\* Channels
\* ------------------------------------------------------------------------
\* The workers blocked in a receive on pool.requests.
Receivers == {w \in Workers : wPc[w] = "recv"}

\* A send on pool.requests can complete: there is room in the buffer, or the
\* channel is unbuffered-full and a worker is blocked receiving.
CanEnqueue ==
    /\ ~closed
    /\ \/ Len(requests) < bufferCap
       \/ requests = <<>> /\ Receivers # {}

\* The send of task t on pool.requests completing: into the buffer, or handed
\* to a waiting worker.
Enqueue(t) ==
    /\ CanEnqueue
    /\ IF Len(requests) < bufferCap
       THEN /\ requests' = Append(requests, t)
            /\ UNCHANGED <<wPc, wTask>>
       ELSE \E w \in Receivers :
            /\ wPc' = [wPc EXCEPT ![w] = "exec"]
            /\ wTask' = [wTask EXCEPT ![w] = t]
            /\ UNCHANGED requests

\* ------------------------------------------------------------------------
\* Snapshots (eventloop/snapshot)
\* ------------------------------------------------------------------------
\* A snapshot is its generation and its state; the test state is a counter.
NewSnapshot(s) == [gen |-> 0, state |-> s]

\* Mutant of SnapshotNext: the generation is not incremented.
SnapshotNextSame(snap, s) == [gen |-> snap.gen, state |-> s]

\* abstract.Next with value.Next: the generation incremented, the state given.
SnapshotNext(snap, s) == [gen |-> snap.gen + 1, state |-> s]

\* testEvent of TestEventLoopBasicOperation: s.counter++
Dispatch(genArg, s) == s + 1


\* ------------------------------------------------------------------------
\* ChannelLock (internal/safeconcurrencysync)
\* ------------------------------------------------------------------------
\* NewChannelLock: the channel holds the "talking-stick".
NewChannelLock == 1

\* <-l.channel can proceed
TokenReady == lockChannel > 0

\* Mutant of TakeToken: the receive leaves the token in the channel.
TakeTokenLeft == UNCHANGED lockChannel

\* <-l.channel: the token is taken out of the channel
TakeToken == lockChannel' = lockChannel - 1

\* ChannelLock.Unlock: the token is put back; when the channel is full the
\* default case panics and the channel is left as it is.
Unlock ==
    IF lockChannel < 1 THEN lockChannel' = lockChannel + 1
                       ELSE UNCHANGED lockChannel

\* ------------------------------------------------------------------------
\* Contexts
\* ------------------------------------------------------------------------
\* The context of caller c is cancelled by its owner, at any time at which
\* the call can still read it.
CtxCancel(c) ==
    /\ ~cCtx[c]
    /\ cPc[c] \in {"idle", "lockWait", "select", "submitSel", "await", "loop"}
    /\ cCtx' = [cCtx EXCEPT ![c] = TRUE]
    /\ UNCHANGED <<mapVars, emitVars, drainVars, retVars, lifeVars, waitVars, watchVars, genVars, lockerVars, poolVars, closeVars, loopVars, cPc, cAtCall, cResult, taskVars>>

\* ------------------------------------------------------------------------
\* pool (workpool)
\* ------------------------------------------------------------------------
\* pool.Start: started.Swap(true), then one worker goroutine per unit of
\* concurrency.  (A second Start panics before it changes anything.)
Start ==
    /\ ~started
    /\ started' = TRUE
    /\ wPc' = [w \in Workers |-> IF w <= concurrency THEN "recv" ELSE "none"]
    /\ UNCHANGED <<mapVars, emitVars, drainVars, retVars, lifeVars, waitVars, watchVars, genVars, lockerVars, concurrency, resource, bufferCap, requests, closed, wg, wTask,
                   closeVars, loopVars, callVars, taskVars>>

\* Mutant of WorkerRecv: the worker takes the task enqueued last.
WorkerRecvLast(w) ==
    /\ wPc[w] = "recv"
    /\ requests # <<>>
    /\ wTask' = [wTask EXCEPT ![w] = requests[Len(requests)]]
    /\ requests' = SubSeq(requests, 1, Len(requests) - 1)
    /\ wPc' = [wPc EXCEPT ![w] = "exec"]
    /\ UNCHANGED <<mapVars, emitVars, drainVars, retVars, lifeVars, waitVars, watchVars, genVars, lockerVars, concurrency, resource, bufferCap, closed, started, wg,
                   closeVars, loopVars, callVars, taskVars>>

\* pool.worker: for task := range p.requests, a task is received.
WorkerRecv(w) ==
    /\ wPc[w] = "recv"
    /\ requests # <<>>
    /\ wTask' = [wTask EXCEPT ![w] = Head(requests)]
    /\ requests' = Tail(requests)
    /\ wPc' = [wPc EXCEPT ![w] = "exec"]
    /\ UNCHANGED <<mapVars, emitVars, drainVars, retVars, lifeVars, waitVars, watchVars, genVars, lockerVars, concurrency, resource, bufferCap, closed, started, wg,
                   closeVars, loopVars, callVars, taskVars>>

\* Mutant of WorkerExit: the worker stops as soon as the channel is closed,
\* without draining the buffered tasks.
WorkerExitNoDrain(w) ==
    /\ wPc[w] = "recv"
    /\ closed
    /\ wPc' = [wPc EXCEPT ![w] = "exited"]
    /\ wg' = wg - 1
    /\ UNCHANGED <<mapVars, emitVars, drainVars, retVars, lifeVars, waitVars, watchVars, genVars, lockerVars, concurrency, resource, bufferCap, requests, closed, started, wTask,
                   closeVars, loopVars, callVars, taskVars>>

\* pool.worker: the range loop ends when the channel is closed and drained;
\* the deferred p.wg.Done() runs.
WorkerExit(w) ==
    /\ wPc[w] = "recv"
    /\ requests = <<>>
    /\ closed
    /\ wPc' = [wPc EXCEPT ![w] = "exited"]
    /\ wg' = wg - 1
    /\ UNCHANGED <<mapVars, emitVars, drainVars, retVars, lifeVars, waitVars, watchVars, genVars, lockerVars, concurrency, resource, bufferCap, requests, closed, started, wTask,
                   closeVars, loopVars, callVars, taskVars>>

\* pool.Close: p.closeOnce.Do(p.closeRequests)
CloseRequests ==
    /\ closePc = "idle"
    /\ closed' = TRUE
    /\ closePc' = "load"
    /\ closeStarted' = started
    /\ UNCHANGED <<mapVars, emitVars, drainVars, retVars, lifeVars, waitVars, watchVars, genVars, lockerVars, concurrency, resource, bufferCap, requests, started, wg, wPc, wTask,
                   loopVars, callVars, taskVars>>

\* pool.Close: if !p.started.Load() { return }
CloseLoad ==
    /\ closePc = "load"
    /\ closePc' = IF started THEN "wait" ELSE "poolClosed"
    /\ UNCHANGED <<mapVars, emitVars, drainVars, retVars, lifeVars, waitVars, watchVars, genVars, lockerVars, poolVars, closeStarted, loopVars, callVars, taskVars>>

\* Mutant of CloseWait: Close returns without waiting for the workers.
CloseNoWait ==
    /\ closePc = "wait"
    /\ closePc' = "poolClosed"
    /\ UNCHANGED <<mapVars, emitVars, drainVars, retVars, lifeVars, waitVars, watchVars, genVars, lockerVars, poolVars, closeStarted, loopVars, callVars, taskVars>>

\* pool.Close: p.wg.Wait() returns once the counter is zero
CloseWait ==
    /\ closePc = "wait"
    /\ wg = 0
    /\ closePc' = "poolClosed"
    /\ UNCHANGED <<mapVars, emitVars, drainVars, retVars, lifeVars, waitVars, watchVars, genVars, lockerVars, poolVars, closeStarted, loopVars, callVars, taskVars>>

\* ------------------------------------------------------------------------
\* eventLoop (eventloop)
\* ------------------------------------------------------------------------
\* eventLoop.Close after l.eventPool.Close(): l.closeOnce.Do(l.closeDone)
CloseDone ==
    /\ closePc = "poolClosed"
    /\ done' = TRUE
    /\ closePc' = "returned"
    /\ UNCHANGED <<mapVars, emitVars, drainVars, retVars, lifeVars, waitVars, watchVars, genVars, lockerVars, poolVars, closeStarted, snapshotPtr, expired, generation,
                   lockChannel, wSnap, wNext, dispatchLog, published, callVars, taskVars>>

\* eventLoop.Send up to the lock's select: the pre-check of Send and then the
\* pre-check of ChannelLock.LockWithContext, two consecutive reads of the
\* same context with no shared state touched between them; a cancelled
\* context returns its cause.
SendPrecheck(c) ==
    /\ cPc[c] = "idle"
    /\ cAtCall' = [cAtCall EXCEPT ![c] = cCtx[c]]
    /\ cPc' = [cPc EXCEPT ![c] = IF cCtx[c] THEN "failed" ELSE "lockWait"]
    /\ UNCHANGED <<mapVars, emitVars, drainVars, retVars, lifeVars, waitVars, watchVars, genVars, lockerVars, poolVars, closeVars, loopVars, cCtx, cResult, taskVars>>

\* ChannelLock.LockWithContext, the select: case <-ctx.Done()
LockCancelled(c) ==
    /\ cPc[c] = "lockWait"
    /\ cCtx[c]
    /\ cPc' = [cPc EXCEPT ![c] = "failed"]
    /\ UNCHANGED <<mapVars, emitVars, drainVars, retVars, lifeVars, waitVars, watchVars, genVars, lockerVars, poolVars, closeVars, loopVars, cCtx, cAtCall, cResult, taskVars>>

\* ChannelLock.LockWithContext, the select: case <-l.channel
LockAcquire(c) ==
    /\ cPc[c] = "lockWait"
    /\ TokenReady
    /\ TakeToken
    /\ cPc' = [cPc EXCEPT ![c] = "select"]
    /\ UNCHANGED <<mapVars, emitVars, drainVars, retVars, lifeVars, waitVars, watchVars, genVars, lockerVars, poolVars, closeVars, snapshotPtr, expired, done, generation,
                   wSnap, wNext, dispatchLog, published, cCtx, cAtCall, cResult, taskVars>>

\* Mutant of SendCancelled: the generation is incremented before the select,
\* so a cancelled Send counts as well.
SendCancelledCounted(c) ==
    /\ cPc[c] = "select"
    /\ cCtx[c]
    /\ cPc' = [cPc EXCEPT ![c] = "failed"]
    /\ generation' = generation + 1
    /\ Unlock
    /\ UNCHANGED <<mapVars, emitVars, drainVars, retVars, lifeVars, waitVars, watchVars, genVars, lockerVars, poolVars, closeVars, snapshotPtr, expired, done,
                   wSnap, wNext, dispatchLog, published, cCtx, cAtCall, cResult, taskVars>>

\* Mutant of SendCancelled: the cancelled Send returns with the lock held.
SendCancelledHeld(c) ==
    /\ cPc[c] = "select"
    /\ cCtx[c]
    /\ cPc' = [cPc EXCEPT ![c] = "failed"]
    /\ UNCHANGED lockChannel
    /\ UNCHANGED <<mapVars, emitVars, drainVars, retVars, lifeVars, waitVars, watchVars, genVars, lockerVars, poolVars, closeVars, snapshotPtr, expired, done, generation,
                   wSnap, wNext, dispatchLog, published, cCtx, cAtCall, cResult, taskVars>>

\* eventLoop.Send, the select: case <-ctx.Done(); the deferred Unlock runs.
SendCancelled(c) ==
    /\ cPc[c] = "select"
    /\ cCtx[c]
    /\ cPc' = [cPc EXCEPT ![c] = "failed"]
    /\ Unlock
    /\ UNCHANGED <<mapVars, emitVars, drainVars, retVars, lifeVars, waitVars, watchVars, genVars, lockerVars, poolVars, closeVars, snapshotPtr, expired, done, generation,
                   wSnap, wNext, dispatchLog, published, cCtx, cAtCall, cResult, taskVars>>

\* Mutant of SendPanic: the panic leaves the lock held.
SendPanicHeld(c) ==
    /\ cPc[c] = "select"
    /\ closed
    /\ cPc' = [cPc EXCEPT ![c] = "panicked"]
    /\ UNCHANGED <<mapVars, emitVars, drainVars, retVars, lifeVars, waitVars, watchVars, genVars, lockerVars, poolVars, closeVars, loopVars, cCtx, cAtCall, cResult, taskVars>>

\* eventLoop.Send, the select: the send case on a closed channel panics; the
\* deferred Unlock runs.
SendPanic(c) ==
    /\ cPc[c] = "select"
    /\ closed
    /\ cPc' = [cPc EXCEPT ![c] = "panicked"]
    /\ Unlock
    /\ UNCHANGED <<mapVars, emitVars, drainVars, retVars, lifeVars, waitVars, watchVars, genVars, lockerVars, poolVars, closeVars, snapshotPtr, expired, done, generation,
                   wSnap, wNext, dispatchLog, published, cCtx, cAtCall, cResult, taskVars>>

\* eventLoop.Send, the select: case l.eventPool.Requests() <- eventTask
SendEnqueue(c) ==
    /\ cPc[c] = "select"
    /\ Enqueue(c)
    /\ cPc' = [cPc EXCEPT ![c] = "inc"]
    /\ UNCHANGED <<mapVars, emitVars, drainVars, retVars, lifeVars, waitVars, watchVars, genVars, lockerVars, concurrency, resource, bufferCap, closed, started, wg, closeVars,
                   loopVars, cCtx, cAtCall, cResult, taskVars>>

\* eventLoop.Send after the send: l.generation++; return l.generation, nil;
\* the deferred Unlock runs.
SendReturn(c) ==
    /\ cPc[c] = "inc"
    /\ generation' = generation + 1
    /\ cResult' = [cResult EXCEPT ![c] = generation + 1]
    /\ cPc' = [cPc EXCEPT ![c] = "ok"]
    /\ Unlock
    /\ UNCHANGED <<mapVars, emitVars, drainVars, retVars, lifeVars, waitVars, watchVars, genVars, lockerVars, poolVars, closeVars, snapshotPtr, expired, done,
                   wSnap, wNext, dispatchLog, published, cCtx, cAtCall, taskVars>>

\* Mutant of ExecuteLoad: snapshot.Expire() is called at once instead of
\* being deferred.
ExecuteLoadExpire(w) ==
    /\ wPc[w] = "exec"
    /\ wSnap' = snapshotPtr
    /\ expired' = expired \cup {snapshotPtr.gen}
    /\ dispatchLog' = Append(dispatchLog, <<wTask[w], snapshotPtr.gen + 1>>)
    /\ wPc' = [wPc EXCEPT ![w] = "dispatch"]
    /\ UNCHANGED <<mapVars, emitVars, drainVars, retVars, lifeVars, waitVars, watchVars, genVars, lockerVars, concurrency, resource, bufferCap, requests, closed, started, wg, wTask,
                   closeVars, snapshotPtr, done, generation, lockChannel,
                   wNext, published, callVars, taskVars>>

\* eventWrapper.Execute: snapshot := *resource.Load(), then e.event.Dispatch
\* is called with snapshot.Generation()+1 and snapshot.State().
ExecuteLoad(w) ==
    /\ wPc[w] = "exec"
    /\ wSnap' = snapshotPtr
    /\ dispatchLog' = Append(dispatchLog, <<wTask[w], snapshotPtr.gen + 1>>)
    /\ wPc' = [wPc EXCEPT ![w] = "dispatch"]
    /\ UNCHANGED <<mapVars, emitVars, drainVars, retVars, lifeVars, waitVars, watchVars, genVars, lockerVars, concurrency, resource, bufferCap, requests, closed, started, wg, wTask,
                   closeVars, snapshotPtr, expired, done, generation, lockChannel,
                   wNext, published, callVars, taskVars>>

\* Mutant of ExecuteNext: the event is dispatched on the initial state
\* instead of the state of the snapshot that was loaded.
ExecuteNextStale(w) ==
    /\ wPc[w] = "dispatch"
    /\ wNext' = SnapshotNext(wSnap, Dispatch(wSnap.gen + 1, NewSnapshot(0).state))
    /\ wPc' = [wPc EXCEPT ![w] = "store"]
    /\ UNCHANGED <<mapVars, emitVars, drainVars, retVars, lifeVars, waitVars, watchVars, genVars, lockerVars, concurrency, resource, bufferCap, requests, closed, started, wg, wTask,
                   closeVars, snapshotPtr, expired, done, generation, lockChannel,
                   wSnap, dispatchLog, published, callVars, taskVars>>

\* eventWrapper.Execute: Dispatch returns; nextSnapshot := snapshot.Next(state)
ExecuteNext(w) ==
    /\ wPc[w] = "dispatch"
    /\ wNext' = SnapshotNext(wSnap, Dispatch(wSnap.gen + 1, wSnap.state))
    /\ wPc' = [wPc EXCEPT ![w] = "store"]
    /\ UNCHANGED <<mapVars, emitVars, drainVars, retVars, lifeVars, waitVars, watchVars, genVars, lockerVars, concurrency, resource, bufferCap, requests, closed, started, wg, wTask,
                   closeVars, snapshotPtr, expired, done, generation, lockChannel,
                   wSnap, dispatchLog, published, callVars, taskVars>>

\* eventWrapper.Execute: resource.Store(&nextSnapshot)
ExecuteStore(w) ==
    /\ wPc[w] = "store"
    /\ snapshotPtr' = wNext
    /\ published' = Append(published, <<wTask[w], wNext.gen>>)
    /\ wPc' = [wPc EXCEPT ![w] = "expire"]
    /\ UNCHANGED <<mapVars, emitVars, drainVars, retVars, lifeVars, waitVars, watchVars, genVars, lockerVars, concurrency, resource, bufferCap, requests, closed, started, wg, wTask,
                   closeVars, expired, done, generation, lockChannel,
                   wSnap, wNext, dispatchLog, callVars, taskVars>>

\* eventWrapper.Execute returns: the deferred snapshot.Expire() runs and the
\* worker goes back to the range loop.
ExecuteExpire(w) ==
    /\ wPc[w] = "expire"
    /\ expired' = expired \cup {wSnap.gen}
    /\ wPc' = [wPc EXCEPT ![w] = "recv"]
    /\ wTask' = [wTask EXCEPT ![w] = 0]
    /\ UNCHANGED <<mapVars, emitVars, drainVars, retVars, lifeVars, waitVars, watchVars, genVars, lockerVars, concurrency, resource, bufferCap, requests, closed, started, wg,
                   closeVars, snapshotPtr, done, generation, lockChannel,
                   wSnap, wNext, dispatchLog, published, callVars, taskVars>>

\* ------------------------------------------------------------------------
\* The event loop's specification
\* ------------------------------------------------------------------------
\* No caller has called a submit helper: no task is wrapped.
NoTasks ==
    /\ cKind = [c \in Senders |-> "none"]
    /\ cRet = [c \in Senders |-> "none"]
    /\ childCtx = [c \in Senders |-> FALSE]
    /\ cbLog = [c \in Senders |-> <<>>]
    /\ rCap = [c \in Senders |-> 0]
    /\ tResults = [c \in Senders |-> <<>>]
    /\ tResClosed = [c \in Senders |-> FALSE]
    /\ tErr = [c \in Senders |-> "nil"]
    /\ tExec = [c \in Senders |-> 0]
    /\ nEmit = [c \in Senders |-> 0]
    /\ emitted = [c \in Senders |-> 0]
    /\ tPre = [c \in Senders |-> FALSE]
    /\ tRunRet = [c \in Senders |-> "none"]
    /\ cGot = [c \in Senders |-> 0]
    /\ cValue = [c \in Senders |-> 0]
    /\ cAtSend = [c \in Senders |-> FALSE]
    /\ cbLast = [c \in Senders |-> "none"]
    /\ dPc = [d \in Drainers |-> "idle"]
    /\ dTask = [d \in Drainers |-> 0]
    /\ drained = [c \in Senders |-> {}]

\* No goroutine has called Start or Close of its own accord.
NoLifecycle ==
    /\ sPc = [g \in Starters |-> "idle"]
    /\ launched = 0
    /\ kPc = [k \in Closers |-> "idle"]
    /\ closeCount = 0

\* WaitForGeneration has not been called.
NoWaiters ==
    /\ wfgGen = [c \in Senders |-> 0]
    /\ wfgSnapshot = [c \in Senders |-> NewSnapshot(0)]
    /\ wfgRet = [c \in Senders |-> "none"]

\* WatchState has not been called.
NoWatch ==
    /\ watchPc = "none"
    /\ watchSnap = NewSnapshot(0)
    /\ watchCtx = FALSE
    /\ watchChild = FALSE
    /\ watchDone = FALSE
    /\ watchLog = <<>>
    /\ watchRunning = 0
    /\ watchStopped = FALSE
    /\ watchInitial = NewSnapshot(0)
    /\ watchAtCall = 0

\* Nothing has happened to the generator and its emitter yet.
NoGenHistory ==
    /\ gRunRet = "none"
    /\ gOnce = FALSE
    /\ gCloseCount = 0
    /\ gExtra = 0
    /\ gCancelEarly = FALSE
    /\ gWaitRet = [i \in GenWaiters |-> "none"]
    /\ gPre = FALSE

\* No generator is in use.
NoGenerator ==
    /\ gCap = 0
    /\ gResults = <<>>
    /\ gResClosed = FALSE
    /\ gDone = FALSE
    /\ gErr = "nil"
    /\ gStarted = FALSE
    /\ gCtx = FALSE
    /\ gPc = "none"
    /\ gValues = 0
    /\ gNext = 1
    /\ rPc = "idle"
    /\ received = <<>>
    /\ waitRet = "none"
    /\ NoGenHistory

\* No goroutine uses a ChannelLock but through the event loop.
NoLockers ==
    /\ lPc = [g \in Lockers |-> "idle"]
    /\ lCtx = [g \in Lockers |-> FALSE]
    /\ lCount = [g \in Lockers |-> 0]

\* No map or slice has been allocated and no snapshot of one made.
NoMaps ==
    /\ heap = <<>>
    /\ refs = {}
    /\ snaps = <<>>

\* NewBuffered: the event pool is workpool.NewBuffered(snapshotPtr, 1, buffer)
LoopWorkers == 1

\* NewBuffered(snapshot.NewValue(0), buffer): a one-worker pool over the
\* snapshot pointer, not started; the WaitGroup pre-charged; no Send yet.
Init ==
    /\ concurrency = LoopWorkers
    /\ resource = "snapshotPtr"
    /\ bufferCap \in 0 .. MaxBuffer
    /\ requests = <<>>
    /\ closed = FALSE
    /\ started = FALSE
    /\ wg = concurrency
    /\ wPc = [w \in Workers |-> "none"]
    /\ wTask = [w \in Workers |-> 0]
    /\ wSnap = NewSnapshot(0)
    /\ wNext = NewSnapshot(0)
    /\ closePc = "idle"
    /\ closeStarted = FALSE
    /\ snapshotPtr = NewSnapshot(0)
    /\ expired = {}
    /\ done = FALSE
    /\ generation = NewSnapshot(0).gen
    /\ lockChannel = NewChannelLock
    /\ cPc = [c \in Senders |-> "idle"]
    /\ cCtx = [c \in Senders |-> FALSE]
    /\ cAtCall = [c \in Senders |-> FALSE]
    /\ cResult = [c \in Senders |-> 0]
    /\ dispatchLog = <<>>
    /\ published = <<>>
    /\ NoTasks
    /\ NoLifecycle
    /\ NoMaps
    /\ NoGenerator
    /\ NoLockers
    /\ NoWaiters
    /\ NoWatch

Worker(w) ==
    \/ WorkerRecv(w)
    \/ WorkerExit(w)
    \/ ExecuteLoad(w)
    \/ ExecuteNext(w)
    \/ ExecuteStore(w)
    \/ ExecuteExpire(w)

Send(c) ==
    \/ SendPrecheck(c)
    \/ LockCancelled(c)
    \/ LockAcquire(c)
    \/ SendCancelled(c)
    \/ SendPanic(c)
    \/ SendEnqueue(c)
    \/ SendReturn(c)

Close ==
    \/ CloseRequests
    \/ CloseLoad
    \/ CloseWait
    \/ CloseDone

Next ==
    \/ Start
    \/ Close
    \/ \E w \in Workers : Worker(w)
    \/ \E c \in Senders : Send(c)
    \/ \E c \in Senders : CtxCancel(c)

Spec == Init /\ [][Next]_vars

\* The loop worker goroutine is scheduled fairly and every Dispatch returns.
FairSpec == Spec /\ \A w \in Workers : WF_vars(Worker(w))


\* ------------------------------------------------------------------------
\* WaitForGeneration and SendAndWait (eventloop)
\* ------------------------------------------------------------------------
\* Everything a step of WaitForGeneration leaves alone but the caller's own
\* variables.
nonWaitVars == <<watchVars, genVars, lockerVars, poolVars, closeVars, loopVars,
                 taskVars, cAtCall, cResult>>

\* The context of caller c is cancelled by its owner between the Send and
\* the WaitForGeneration of SendAndWait, or during WaitForGeneration.
WaitCtxCancel(c) ==
    /\ ~cCtx[c]
    /\ cPc[c] \in {"ok", "wfgLoad", "wfgSelect"}
    /\ cCtx' = [cCtx EXCEPT ![c] = TRUE]
    /\ UNCHANGED <<mapVars, emitVars, drainVars, retVars, lifeVars, nonWaitVars, waitVars, cPc>>

\* WaitForGeneration(ctx, eventLoop, gen) is called: by a caller of its own
\* with any gen, or by SendAndWait with the generation Send returned.
WaitForGeneration(c) ==
    /\ wfgGen[c] = 0
    /\ \/ /\ cPc[c] = "idle"
          /\ \E g \in 1 .. NSenders : wfgGen' = [wfgGen EXCEPT ![c] = g]
       \/ /\ cPc[c] = "ok"
          /\ wfgGen' = [wfgGen EXCEPT ![c] = cResult[c]]
    /\ cPc' = [cPc EXCEPT ![c] = "wfgLoad"]
    /\ UNCHANGED <<mapVars, emitVars, drainVars, retVars, lifeVars, nonWaitVars, wfgSnapshot, wfgRet, cCtx>>

\* Mutant of WaitLoad: the snapshot is returned whatever its generation.
WaitLoadAny(c) ==
    /\ cPc[c] = "wfgLoad"
    /\ wfgSnapshot' = [wfgSnapshot EXCEPT ![c] = snapshotPtr]
    /\ wfgRet' = [wfgRet EXCEPT ![c] = "snapshot"]
    /\ cPc' = [cPc EXCEPT ![c] = "waited"]
    /\ UNCHANGED <<mapVars, emitVars, drainVars, retVars, lifeVars, nonWaitVars, wfgGen, cCtx>>

\* WaitForGeneration, top of the loop: snapshot := eventLoop.Snapshot(); it
\* is returned if its generation is at least gen.
WaitLoad(c) ==
    /\ cPc[c] = "wfgLoad"
    /\ wfgSnapshot' = [wfgSnapshot EXCEPT ![c] = snapshotPtr]
    /\ IF snapshotPtr.gen >= wfgGen[c]
       THEN /\ wfgRet' = [wfgRet EXCEPT ![c] = "snapshot"]
            /\ cPc' = [cPc EXCEPT ![c] = "waited"]
       ELSE /\ cPc' = [cPc EXCEPT ![c] = "wfgSelect"]
            /\ UNCHANGED wfgRet
    /\ UNCHANGED <<mapVars, emitVars, drainVars, retVars, lifeVars, nonWaitVars, wfgGen, cCtx>>

\* WaitForGeneration, the select: case <-ctx.Done()
WaitCancelled(c) ==
    /\ cPc[c] = "wfgSelect"
    /\ cCtx[c]
    /\ wfgRet' = [wfgRet EXCEPT ![c] = "cause"]
    /\ cPc' = [cPc EXCEPT ![c] = "waited"]
    /\ UNCHANGED <<mapVars, emitVars, drainVars, retVars, lifeVars, nonWaitVars, wfgGen, wfgSnapshot, cCtx>>

\* Mutant of WaitDone: ErrEventLoopClosed is returned without reading the
\* snapshot again.
WaitDoneNoReread(c) ==
    /\ cPc[c] = "wfgSelect"
    /\ done
    /\ wfgRet' = [wfgRet EXCEPT ![c] = "closed"]
    /\ cPc' = [cPc EXCEPT ![c] = "waited"]
    /\ UNCHANGED <<mapVars, emitVars, drainVars, retVars, lifeVars, nonWaitVars, wfgGen, wfgSnapshot, cCtx>>

\* WaitForGeneration, the select: case <-eventLoop.Done(); the snapshot is
\* read again and returned if its generation is at least gen, otherwise
\* ErrEventLoopClosed is returned.
WaitDone(c) ==
    /\ cPc[c] = "wfgSelect"
    /\ done
    /\ wfgSnapshot' = [wfgSnapshot EXCEPT ![c] = snapshotPtr]
    /\ wfgRet' = [wfgRet EXCEPT ![c] =
                    IF snapshotPtr.gen >= wfgGen[c] THEN "snapshot" ELSE "closed"]
    /\ cPc' = [cPc EXCEPT ![c] = "waited"]
    /\ UNCHANGED <<mapVars, emitVars, drainVars, retVars, lifeVars, nonWaitVars, wfgGen, cCtx>>

\* WaitForGeneration, the select: case <-snapshot.Expiration(); the loop
\* goes round.
WaitExpired(c) ==
    /\ cPc[c] = "wfgSelect"
    /\ wfgSnapshot[c].gen \in expired
    /\ cPc' = [cPc EXCEPT ![c] = "wfgLoad"]
    /\ UNCHANGED <<mapVars, emitVars, drainVars, retVars, lifeVars, nonWaitVars, waitVars, cCtx>>

\* The steps of a goroutine inside WaitForGeneration.
Waiting(c) ==
    \/ WaitLoad(c)
    \/ WaitCancelled(c)
    \/ WaitDone(c)
    \/ WaitExpired(c)

\* The event loop with callers of Send, of which the first NWaiters may also
\* call WaitForGeneration, on its own or after Send as SendAndWait does.
\* The contexts of the callers that wait are cancelled between Send and
\* WaitForGeneration or later, those of the others during Send.
WaitNext ==
    \/ Start
    \/ Close
    \/ \E w \in Workers : Worker(w)
    \/ \E c \in Senders : Send(c)
    \/ \E c \in Senders \ Waiters : CtxCancel(c)
    \/ \E c \in Waiters : WaitForGeneration(c) \/ Waiting(c) \/ WaitCtxCancel(c)

WaitSpec == Init /\ [][WaitNext]_vars

\* The event loop with callers that all may call WaitForGeneration, on its
\* own or after Send as SendAndWait does.
SendAndWaitNext ==
    \/ Start
    \/ Close
    \/ \E w \in Workers : Worker(w)
    \/ \E c \in Waiters : Send(c)
    \/ \E c \in Waiters : CtxCancel(c)
    \/ \E c \in Waiters : WaitForGeneration(c) \/ Waiting(c) \/ WaitCtxCancel(c)

SendAndWaitSpec == Init /\ [][SendAndWaitNext]_vars

\* The loop worker and the goroutines inside WaitForGeneration are scheduled.
SendAndWaitFairSpec ==
    /\ SendAndWaitSpec
    /\ \A w \in Workers : WF_vars(Worker(w))
    /\ \A c \in Waiters : WF_vars(Waiting(c))

\* ------------------------------------------------------------------------
\* Properties of WaitForGeneration and SendAndWait
\* ------------------------------------------------------------------------
\* The events whose Send returned a generation.
Sent == {c \in Senders : cResult[c] # 0}

\* Nothing can write the snapshot pointer any more: the loop is closed, the
\* queue is empty and no event is being executed.
LoopQuiet ==
    /\ done
    /\ requests = <<>>
    /\ \A w \in Workers : wPc[w] \notin {"exec", "dispatch", "store", "expire"}

\* Caller c is inside WaitForGeneration.
InWait(c) == cPc[c] \in {"wfgLoad", "wfgSelect"}

\* C11: WaitForGeneration returns a snapshot of generation at least gen, or
\* nil with the cancellation cause and then the context is cancelled, or nil
\* with ErrEventLoopClosed and then, at the moment it returns, Done() is
\* closed and the loop's snapshot is still before gen.  With the loop closed
\* it does not block: it returns, and it returns ErrEventLoopClosed when the
\* loop has come to rest before gen and the context is not cancelled.
WaitOutcomes ==
    /\ [](\A c \in Waiters :
            /\ wfgRet[c] \in {"none", "snapshot", "cause", "closed"}
            /\ wfgRet[c] = "snapshot" => wfgSnapshot[c].gen >= wfgGen[c]
            /\ wfgRet[c] = "cause" => cCtx[c]
            /\ wfgRet[c] = "closed" => done /\ wfgSnapshot[c].gen < wfgGen[c])
    /\ [][\A c \in Waiters :
            /\ (wfgRet[c] # "closed" /\ wfgRet'[c] = "closed") =>
                   done /\ snapshotPtr.gen < wfgGen[c]
            /\ (/\ wfgRet[c] = "none" /\ wfgRet'[c] # "none"
                /\ LoopQuiet /\ snapshotPtr.gen < wfgGen[c] /\ ~cCtx[c]) =>
                   wfgRet'[c] = "closed"]_vars
    /\ \A c \in Waiters : (InWait(c) /\ done) ~> (cPc[c] = "waited")

\* WaitForGeneration returned ErrEventLoopClosed to a caller whose context
\* is not cancelled, on a loop that was started and closed.
WaitOutcomesWitness ==
    \E c \in Waiters :
        /\ wfgRet[c] = "closed"
        /\ ~cCtx[c]
        /\ started
        /\ LoopQuiet

\* Close has not been called, or the loop had been started when it was.
StartedBeforeClose == closePc = "idle" \/ closeStarted

\* C12: on a loop started before Close is called, WaitForGeneration for the
\* generation a successful Send returned, with a context that is never
\* cancelled, never returns ErrEventLoopClosed: it returns a snapshot of at
\* least that generation, and with the loop started it does return.
WaitAfterSend ==
    /\ [](\A c \in Waiters :
            (StartedBeforeClose /\ cResult[c] # 0 /\ wfgRet[c] # "none"
             /\ ~cCtx[c]) =>
                /\ wfgRet[c] = "snapshot"
                /\ wfgSnapshot[c].gen >= cResult[c])
    /\ \A c \in Waiters :
            (InWait(c) /\ cResult[c] # 0 /\ started) ~> (cPc[c] = "waited")

\* The waiter chose the Done() branch of its select after Close had returned,
\* and the snapshot it read again was the one of its event.
WaitAfterSendWitness ==
    \E c \in Waiters :
        /\ cResult[c] # 0
        /\ wfgRet[c] = "snapshot"
        /\ ~cCtx[c]
        /\ done
        /\ closeStarted
        /\ wfgSnapshot[c].gen \notin expired
        /\ wfgSnapshot[c].gen = cResult[c]

\* No caller but c has called Send.
OnlySender(c) == \A d \in Senders \ {c} : cPc[d] = "idle"

\* The workers executing an event.
Dispatching == {w \in Workers : wPc[w] \in {"dispatch", "store", "expire"}}

\* C13: at most one event is being executed at any time; the snapshot
\* pointer changes only by the loop worker's store, to the next generation;
\* the state an event is dispatched on is the state of the snapshot still
\* current, so that the snapshot of generation g holds state g, after any
\* number of Sends by concurrent senders; and SendAndWait returns a snapshot
\* whose state is its generation, which is generation 1 with state 1 when
\* its sender is the only one.
SerialDispatch ==
    /\ [](/\ Cardinality(Dispatching) <= 1
          /\ snapshotPtr.state = snapshotPtr.gen
          /\ snapshotPtr.gen = Len(published)
          /\ \A w \in Workers :
                 /\ wPc[w] = "dispatch" => wSnap = snapshotPtr
                 /\ wPc[w] = "store" =>
                        wNext = SnapshotNext(snapshotPtr, snapshotPtr.state + 1)
          /\ \A c \in Waiters :
                 wfgRet[c] = "snapshot" =>
                     /\ wfgSnapshot[c].state = wfgSnapshot[c].gen
                     /\ (cResult[c] # 0 /\ OnlySender(c)) =>
                            wfgSnapshot[c] = SnapshotNext(NewSnapshot(0), 1))
    /\ [][snapshotPtr' # snapshotPtr =>
            /\ snapshotPtr'.gen = snapshotPtr.gen + 1
            /\ \E w \in Workers : wPc[w] = "store" /\ wPc'[w] = "expire"]_vars

\* Two concurrent senders' events are published and SendAndWait returned the
\* snapshot of the second.
SerialDispatchWitness ==
    \E c \in Waiters :
        /\ cResult[c] = NSenders
        /\ wfgRet[c] = "snapshot"
        /\ wfgSnapshot[c] = [gen |-> NSenders, state |-> NSenders]
        /\ Sent = Senders

\* ------------------------------------------------------------------------
\* WatchState (eventloop)
\* ------------------------------------------------------------------------
\* Everything a step of WatchState and watchLoop leaves alone but the
\* watch's own variables.
nonWatchVars == <<waitVars, genVars, lockerVars, poolVars, closeVars, loopVars,
                  callVars, taskVars>>

\* The context given to WatchState is cancelled by its owner; watchLoop
\* reads it in its select only, so that an earlier cancellation is seen as
\* one made when the select is reached.
WatchCtxCancel ==
    /\ ~watchCtx
    /\ watchPc = "select"
    /\ watchCtx' = TRUE
    /\ UNCHANGED <<mapVars, emitVars, drainVars, retVars, lifeVars, nonWatchVars, watchPc, watchSnap, watchChild, watchDone,
                   watchLog, watchRunning, watchStopped, watchInitial,
                   watchAtCall>>

\* WatchState: done := make(chan struct{}); go watchLoop(...); return done
WatchState ==
    /\ watchPc = "none"
    /\ watchPc' = "load"
    /\ watchAtCall' = snapshotPtr.gen
    /\ UNCHANGED <<mapVars, emitVars, drainVars, retVars, lifeVars, nonWatchVars, watchSnap, watchCtx, watchChild, watchDone,
                   watchLog, watchRunning, watchStopped, watchInitial>>

\* watchLoop: the watcher is called with snapshot snap.
WatchCall(snap) ==
    /\ watchSnap' = snap
    /\ watchLog' = Append(watchLog, snap)
    /\ watchRunning' = watchRunning + 1
    /\ watchPc' = "running"

\* watchLoop: snap := eventLoop.Snapshot(), and the first call of the watcher.
WatchLoad ==
    /\ watchPc = "load"
    /\ watchInitial' = snapshotPtr
    /\ WatchCall(snapshotPtr)
    /\ UNCHANGED <<mapVars, emitVars, drainVars, retVars, lifeVars, nonWatchVars, watchCtx, watchChild, watchDone, watchStopped,
                   watchAtCall>>

\* watchLoop: the watcher returns cont; false breaks out of the loop.
WatchReturn ==
    /\ watchPc = "running"
    /\ \E cont \in BOOLEAN :
          /\ watchPc' = IF cont THEN "select" ELSE "cancel"
          /\ watchStopped' = (watchStopped \/ ~cont)
    /\ watchRunning' = watchRunning - 1
    /\ UNCHANGED <<mapVars, emitVars, drainVars, retVars, lifeVars, nonWatchVars, watchSnap, watchCtx, watchChild, watchDone,
                   watchLog, watchInitial, watchAtCall>>

\* watchLoop, the select: case <-ctx.Done(): return
WatchCancelled ==
    /\ watchPc = "select"
    /\ watchCtx
    /\ watchPc' = "cancel"
    /\ UNCHANGED <<mapVars, emitVars, drainVars, retVars, lifeVars, nonWatchVars, watchSnap, watchCtx, watchChild, watchDone,
                   watchLog, watchRunning, watchStopped, watchInitial,
                   watchAtCall>>

\* Mutant of WatchLoopDone: the watch returns without reading the snapshot
\* again.
WatchLoopDoneNoReread ==
    /\ watchPc = "select"
    /\ done
    /\ watchPc' = "cancel"
    /\ UNCHANGED <<mapVars, emitVars, drainVars, retVars, lifeVars, nonWatchVars, watchSnap, watchCtx, watchChild, watchDone,
                   watchLog, watchRunning, watchStopped, watchInitial,
                   watchAtCall>>

\* watchLoop, the select: case <-eventLoop.Done(): the snapshot is read
\* again; the watch returns if its generation is the one already seen,
\* otherwise the watcher is called with it.
WatchLoopDone ==
    /\ watchPc = "select"
    /\ done
    /\ IF snapshotPtr.gen = watchSnap.gen
       THEN /\ watchPc' = "cancel"
            /\ watchSnap' = snapshotPtr
            /\ UNCHANGED <<watchLog, watchRunning>>
       ELSE WatchCall(snapshotPtr)
    /\ UNCHANGED <<mapVars, emitVars, drainVars, retVars, lifeVars, nonWatchVars, watchCtx, watchChild, watchDone, watchStopped,
                   watchInitial, watchAtCall>>

\* Mutant of WatchExpired: the select wakes up although snap has not expired.
WatchExpiredSpurious ==
    /\ watchPc = "select"
    /\ WatchCall(snapshotPtr)
    /\ UNCHANGED <<mapVars, emitVars, drainVars, retVars, lifeVars, nonWatchVars, watchCtx, watchChild, watchDone, watchStopped,
                   watchInitial, watchAtCall>>

\* watchLoop, the select: case <-snap.Expiration(): snap is read again and
\* the watcher is called with it.
WatchExpired ==
    /\ watchPc = "select"
    /\ watchSnap.gen \in expired
    /\ WatchCall(snapshotPtr)
    /\ UNCHANGED <<mapVars, emitVars, drainVars, retVars, lifeVars, nonWatchVars, watchCtx, watchChild, watchDone, watchStopped,
                   watchInitial, watchAtCall>>

\* Mutant of WatchCancel: the derived context is left alone.
WatchNoCancel ==
    /\ watchPc = "cancel"
    /\ watchPc' = "close"
    /\ UNCHANGED <<mapVars, emitVars, drainVars, retVars, lifeVars, nonWatchVars, watchSnap, watchCtx, watchChild, watchDone,
                   watchLog, watchRunning, watchStopped, watchInitial,
                   watchAtCall>>

\* watchLoop returns: the deferred cancel() of the derived context
WatchCancel ==
    /\ watchPc = "cancel"
    /\ watchChild' = TRUE
    /\ watchPc' = "close"
    /\ UNCHANGED <<mapVars, emitVars, drainVars, retVars, lifeVars, nonWatchVars, watchSnap, watchCtx, watchDone, watchLog,
                   watchRunning, watchStopped, watchInitial, watchAtCall>>

\* watchLoop returns: the deferred close(done)
WatchCloseDone ==
    /\ watchPc = "close"
    /\ watchDone' = TRUE
    /\ watchPc' = "closed"
    /\ UNCHANGED <<mapVars, emitVars, drainVars, retVars, lifeVars, nonWatchVars, watchSnap, watchCtx, watchChild, watchLog,
                   watchRunning, watchStopped, watchInitial, watchAtCall>>

\* The steps of the watchLoop goroutine.
WatchLoop ==
    \/ WatchLoad
    \/ WatchReturn
    \/ WatchCancelled
    \/ WatchLoopDone
    \/ WatchExpired
    \/ WatchCancel
    \/ WatchCloseDone

\* The event loop with its senders and one watch.
WatchNext ==
    \/ Start
    \/ Close
    \/ \E w \in Workers : Worker(w)
    \/ \E c \in Senders : Send(c)
    \/ \E c \in Senders \ Waiters : CtxCancel(c)
    \/ WatchState
    \/ WatchLoop
    \/ WatchCtxCancel

WatchSpec == Init /\ [][WatchNext]_vars

\* The same with the callers of SendAndWaitSpec as the senders.
WatchEndNext ==
    \/ Start
    \/ Close
    \/ \E w \in Workers : Worker(w)
    \/ \E c \in Waiters : Send(c)
    \/ \E c \in Waiters : CtxCancel(c)
    \/ WatchState
    \/ WatchLoop
    \/ WatchCtxCancel

WatchEndSpec == Init /\ [][WatchEndNext]_vars

\* The loop worker and the watchLoop goroutine are scheduled, and every call
\* of the watcher returns.
WatchFairSpec ==
    /\ WatchEndSpec
    /\ \A w \in Workers : WF_vars(Worker(w))
    /\ WF_vars(WatchLoop)

\* ------------------------------------------------------------------------
\* Properties of WatchState
\* ------------------------------------------------------------------------
\* The watcher has returned true from every call so far and the context
\* given to WatchState is not cancelled.
WatchUndisturbed == ~watchStopped /\ ~watchCtx

\* The snapshots the watcher was called with.
LastWatched == watchLog[Len(watchLog)]

\* C14: with a watcher that always returns true and a watch context that is
\* never cancelled, on a loop started before Close, the channel WatchState
\* returned is closed only after the loop is closed and the watcher has been
\* called with the loop's final snapshot, the one Snapshot() returns from
\* then on; and once the loop is closed that channel is eventually closed.
WatchFinalSnapshot ==
    /\ []((watchDone /\ WatchUndisturbed /\ StartedBeforeClose) =>
              /\ LoopQuiet
              /\ watchLog # <<>>
              /\ LastWatched = snapshotPtr
              /\ watchRunning = 0)
    /\ [][(watchDone /\ WatchUndisturbed /\ StartedBeforeClose) =>
              snapshotPtr' = snapshotPtr]_vars
    /\ (watchPc # "none" /\ done /\ StartedBeforeClose)
           ~> (watchDone \/ ~WatchUndisturbed)

\* The watcher was called with the initial snapshot and with the final one,
\* and the watch ended on the Done() branch.
WatchFinalSnapshotWitness ==
    /\ watchDone
    /\ WatchUndisturbed
    /\ closeStarted
    /\ Len(watchLog) = 2
    /\ LastWatched = snapshotPtr
    /\ snapshotPtr.gen = NWaiters
    /\ watchLog[1].gen = 0

\* The generations the watcher was called with, in order of the calls.
WatchedGenerations == [i \in 1..Len(watchLog) |-> watchLog[i].gen]

\* C15: the first call of the watcher receives the snapshot watchLoop read
\* when it began, which is no older than the one current when WatchState was
\* called; at most one call of the watcher is in progress; and the
\* generations of successive calls are strictly increasing, each call
\* receiving a snapshot the loop has published.
WatchDiscipline ==
    /\ [](/\ watchRunning \in {0, 1}
          /\ watchRunning = 1 <=> watchPc = "running"
          /\ watchLog # <<>> =>
                 /\ watchLog[1] = watchInitial
                 /\ watchInitial.gen >= watchAtCall
          /\ \A i \in 1..Len(watchLog) :
                 /\ watchLog[i].state = watchLog[i].gen
                 /\ watchLog[i].gen <= snapshotPtr.gen
          /\ \A i, j \in 1..Len(watchLog) :
                 i < j => WatchedGenerations[i] < WatchedGenerations[j])
    /\ [][watchLog' # watchLog =>
            /\ watchRunning = 0
            /\ watchLog' = Append(watchLog, snapshotPtr)]_vars

\* The watcher is being called for the second time, with a snapshot two
\* generations after the initial one.
WatchDisciplineWitness ==
    /\ Len(watchLog) = 2
    /\ watchRunning = 1
    /\ watchLog[1] = watchInitial
    /\ LastWatched.gen = watchInitial.gen + 2

\* The watch has a reason to end: the watcher returned false, the context
\* given to WatchState is cancelled, or the event loop is closed.
WatchEnding == watchPc # "none" /\ (watchStopped \/ watchCtx \/ done)

\* C16: every call of the watcher returning, the channel WatchState returned
\* is eventually closed once the watcher returned false, the watch context
\* is cancelled or the event loop is closed, and it is closed for one of
\* these reasons only; when it is closed the context passed to the watcher
\* has been cancelled and no call is in progress; and the watcher is not
\* called afterwards.
WatchTermination ==
    /\ WatchEnding ~> watchDone
    /\ [](watchDone => /\ watchChild
                       /\ watchRunning = 0
                       /\ watchPc = "closed"
                       /\ WatchEnding)
    /\ [][watchDone => /\ watchLog' = watchLog
                       /\ watchRunning' = 0
                       /\ watchDone']_vars

\* The watch ended because the watcher returned false on its second call,
\* with the loop open and the context not cancelled.
WatchTerminationWitness ==
    /\ watchDone
    /\ watchStopped
    /\ ~watchCtx
    /\ ~done
    /\ Len(watchLog) = 2


\* ------------------------------------------------------------------------
\* Task wrappers (workpool/task) executed by a pool worker
\* ------------------------------------------------------------------------
\* WrapTask: res := make(chan ValueT, 1)
ResultBuffer == 1

\* The context the wrapped task of caller c was given is cancelled: the
\* caller's context, or the context SubmitStreamingBuffered derived from it.
Cancelled(c) == cCtx[c] \/ childCtx[c]

\* The outcomes of a user task: it returns no error or an error of its own.
TaskErrors == {"nil", "taskErr"}

\* Mutant of ExecuteTask: the error the task returned is not stored.
ExecuteTaskNoStore(w) ==
    /\ wPc[w] = "exec"
    /\ cKind[wTask[w]] \in {"Submit", "SubmitFunc"}
    /\ \E e \in TaskErrors : tRunRet' = [tRunRet EXCEPT ![wTask[w]] = e]
    /\ tExec' = [tExec EXCEPT ![wTask[w]] = @ + 1]
    /\ wPc' = [wPc EXCEPT ![w] = "publish"]
    /\ UNCHANGED <<mapVars, emitVars, drainVars, cbLast, cAtSend, cGot, cValue, lifeVars, waitVars, watchVars, genVars, lockerVars, concurrency, resource, bufferCap, requests, closed, started, wg, wTask,
                   closeVars, loopVars, callVars, cKind, cRet, childCtx, cbLog,
                   rCap, tResults, tResClosed, tErr, nEmit, emitted>>

\* taskWrapper.Execute: value, err := t.task.Execute(t.ctx, resource), then
\* *t.err = err.
ExecuteTask(w) ==
    /\ wPc[w] = "exec"
    /\ cKind[wTask[w]] \in {"Submit", "SubmitFunc"}
    /\ \E e \in TaskErrors :
          /\ tRunRet' = [tRunRet EXCEPT ![wTask[w]] = e]
          /\ tErr' = [tErr EXCEPT ![wTask[w]] = e]
    /\ tExec' = [tExec EXCEPT ![wTask[w]] = @ + 1]
    /\ wPc' = [wPc EXCEPT ![w] = "publish"]
    /\ UNCHANGED <<mapVars, emitVars, drainVars, cbLast, cAtSend, cGot, cValue, lifeVars, waitVars, watchVars, genVars, lockerVars, concurrency, resource, bufferCap, requests, closed, started, wg, wTask,
                   closeVars, loopVars, callVars, cKind, cRet, childCtx, cbLog,
                   rCap, tResults, tResClosed, nEmit, emitted>>

\* taskWrapper.Execute: t.r <- value
ExecutePublish(w) ==
    /\ wPc[w] = "publish"
    /\ Len(tResults[wTask[w]]) < rCap[wTask[w]]
    /\ tResults' = [tResults EXCEPT ![wTask[w]] = Append(@, 1)]
    /\ wPc' = [wPc EXCEPT ![w] = "closeResults"]
    /\ UNCHANGED <<mapVars, emitVars, drainVars, retVars, lifeVars, waitVars, watchVars, genVars, lockerVars, concurrency, resource, bufferCap, requests, closed, started, wg, wTask,
                   closeVars, loopVars, callVars, cKind, cRet, childCtx, cbLog,
                   rCap, tResClosed, tErr, tExec, nEmit, emitted>>

\* taskWrapper.Execute and streamingTaskWrapper.Execute return: the deferred
\* close(t.r), or t.emitter.Close(), closes the result channel.
ExecuteClose(w) ==
    /\ wPc[w] = "closeResults"
    /\ tResClosed' = [tResClosed EXCEPT ![wTask[w]] = TRUE]
    /\ wPc' = [wPc EXCEPT ![w] = "recv"]
    /\ wTask' = [wTask EXCEPT ![w] = 0]
    /\ UNCHANGED <<mapVars, emitVars, drainVars, retVars, lifeVars, waitVars, watchVars, genVars, lockerVars, concurrency, resource, bufferCap, requests, closed, started, wg,
                   closeVars, loopVars, callVars, cKind, cRet, childCtx, cbLog,
                   rCap, tResults, tErr, tExec, nEmit, emitted>>

\* A task that is a ValuelessTask itself (countingTask of TestPoolConcurrency,
\* or the task given to pool.Submit): Execute runs and returns.
ExecuteValueless(w) ==
    /\ wPc[w] = "exec"
    /\ cKind[wTask[w]] \in {"Requests", "PoolSubmit"}
    /\ tExec' = [tExec EXCEPT ![wTask[w]] = @ + 1]
    /\ wPc' = [wPc EXCEPT ![w] = "recv"]
    /\ wTask' = [wTask EXCEPT ![w] = 0]
    /\ UNCHANGED <<mapVars, emitVars, drainVars, retVars, lifeVars, waitVars, watchVars, genVars, lockerVars, concurrency, resource, bufferCap, requests, closed, started, wg,
                   closeVars, loopVars, callVars, cKind, cRet, childCtx, cbLog,
                   rCap, tResults, tResClosed, tErr, nEmit, emitted>>

\* streamingTaskWrapper.Execute: t.task.Execute(t.ctx, resource, t.emitter)
\* is called.
ExecuteStreaming(w) ==
    /\ wPc[w] = "exec"
    /\ cKind[wTask[w]] = "Streaming"
    /\ tExec' = [tExec EXCEPT ![wTask[w]] = @ + 1]
    /\ wPc' = [wPc EXCEPT ![w] = "emitPre"]
    /\ UNCHANGED <<mapVars, emitVars, drainVars, retVars, lifeVars, waitVars, watchVars, genVars, lockerVars, concurrency, resource, bufferCap, requests, closed, started, wg, wTask,
                   closeVars, loopVars, callVars, cKind, cRet, childCtx, cbLog,
                   rCap, tResults, tResClosed, tErr, nEmit, emitted>>

\* The streaming task has emitted all its values and returns; the wrapper
\* stores what it returned in *t.err.
StreamingReturn(w) ==
    /\ wPc[w] = "emitPre"
    /\ emitted[wTask[w]] = nEmit[wTask[w]]
    /\ \E e \in TaskErrors :
          /\ tRunRet' = [tRunRet EXCEPT ![wTask[w]] = e]
          /\ tErr' = [tErr EXCEPT ![wTask[w]] = e]
    /\ wPc' = [wPc EXCEPT ![w] = "closeResults"]
    /\ UNCHANGED <<mapVars, emitVars, drainVars, cbLast, cGot, cValue, cAtSend, lifeVars, waitVars, watchVars, genVars, lockerVars, concurrency, resource, bufferCap, requests, closed, started, wg, wTask,
                   closeVars, loopVars, callVars, cKind, cRet, childCtx, cbLog,
                   rCap, tResults, tResClosed, tExec, nEmit, emitted>>

\* Mutant of EmitPrecheck: Emit goes to its select without the pre-check.
EmitNoPrecheck(w) ==
    /\ wPc[w] = "emitPre"
    /\ emitted[wTask[w]] < nEmit[wTask[w]]
    /\ wPc' = [wPc EXCEPT ![w] = "emitSel"]
    /\ UNCHANGED <<mapVars, emitVars, drainVars, retVars, lifeVars, waitVars, watchVars, genVars, lockerVars, concurrency, resource, bufferCap, requests, closed, started, wg, wTask,
                   closeVars, loopVars, callVars, taskVars>>

\* emitter.Emit, the pre-check: a cancelled context returns its cause, which
\* the task returns in turn.
EmitPrecheck(w) ==
    /\ wPc[w] = "emitPre"
    /\ emitted[wTask[w]] < nEmit[wTask[w]]
    /\ IF Cancelled(wTask[w])
       THEN /\ tRunRet' = [tRunRet EXCEPT ![wTask[w]] = "cause"]
            /\ tErr' = [tErr EXCEPT ![wTask[w]] = "cause"]
            /\ tPre' = [tPre EXCEPT ![wTask[w]] = TRUE]
            /\ wPc' = [wPc EXCEPT ![w] = "closeResults"]
       ELSE /\ wPc' = [wPc EXCEPT ![w] = "emitSel"]
            /\ UNCHANGED <<tRunRet, tErr, tPre>>
    /\ UNCHANGED <<mapVars, gPre, drainVars, cbLast, cGot, cValue, cAtSend, lifeVars, waitVars, watchVars, genVars, lockerVars, concurrency, resource, bufferCap, requests, closed, started, wg, wTask,
                   closeVars, loopVars, callVars, cKind, cRet, childCtx, cbLog,
                   rCap, tResults, tResClosed, tExec, nEmit, emitted>>

\* emitter.Emit, the select: case <-ctx.Done()
EmitCancelled(w) ==
    /\ wPc[w] = "emitSel"
    /\ Cancelled(wTask[w])
    /\ tRunRet' = [tRunRet EXCEPT ![wTask[w]] = "cause"]
    /\ tErr' = [tErr EXCEPT ![wTask[w]] = "cause"]
    /\ wPc' = [wPc EXCEPT ![w] = "closeResults"]
    /\ UNCHANGED <<mapVars, emitVars, drainVars, cbLast, cGot, cValue, cAtSend, lifeVars, waitVars, watchVars, genVars, lockerVars, concurrency, resource, bufferCap, requests, closed, started, wg, wTask,
                   closeVars, loopVars, callVars, cKind, cRet, childCtx, cbLog,
                   rCap, tResults, tResClosed, tExec, nEmit, emitted>>

\* Mutant of EmitSend: the send completes although the buffer is full.
EmitSendOverfull(w) ==
    /\ wPc[w] = "emitSel"
    /\ tResults' = [tResults EXCEPT ![wTask[w]] = Append(@, emitted[wTask[w]] + 1)]
    /\ emitted' = [emitted EXCEPT ![wTask[w]] = @ + 1]
    /\ wPc' = [wPc EXCEPT ![w] = "emitPre"]
    /\ UNCHANGED <<mapVars, emitVars, drainVars, retVars, lifeVars, waitVars, watchVars, genVars, lockerVars, concurrency, resource, bufferCap, requests, closed, started, wg, wTask,
                   closeVars, loopVars, callVars, cKind, cRet, childCtx, cbLog,
                   rCap, tResClosed, tErr, tExec, nEmit>>

\* emitter.Emit, the select: case e.results <- value, into the buffer
EmitSend(w) ==
    /\ wPc[w] = "emitSel"
    /\ Len(tResults[wTask[w]]) < rCap[wTask[w]]
    /\ tResults' = [tResults EXCEPT ![wTask[w]] = Append(@, emitted[wTask[w]] + 1)]
    /\ emitted' = [emitted EXCEPT ![wTask[w]] = @ + 1]
    /\ wPc' = [wPc EXCEPT ![w] = "emitPre"]
    /\ UNCHANGED <<mapVars, emitVars, drainVars, retVars, lifeVars, waitVars, watchVars, genVars, lockerVars, concurrency, resource, bufferCap, requests, closed, started, wg, wTask,
                   closeVars, loopVars, callVars, cKind, cRet, childCtx, cbLog,
                   rCap, tResClosed, tErr, tExec, nEmit>>

\* ------------------------------------------------------------------------
\* Submit helpers (workpool) and pool.Submit
\* ------------------------------------------------------------------------
\* The errors a ResultCallback returns: none, an error, or the sentinel Stop.
CallbackErrors == {"nil", "cbErr", "stop"}

\* Mutant of Callback: after a callback error the helper returns the task's
\* error when there is one.
CallbackTaskFirst(c, v) ==
    \E o \in CallbackErrors :
        /\ cbLog' = [cbLog EXCEPT ![c] = Append(@, v)]
        /\ cbLast' = [cbLast EXCEPT ![c] = o]
        /\ IF o = "nil"
           THEN UNCHANGED <<cPc, cRet, childCtx>>
           ELSE /\ cPc' = [cPc EXCEPT ![c] = "returned"]
                /\ cRet' = [cRet EXCEPT ![c] =
                              IF tErr[c] # "nil" THEN tErr[c]
                              ELSE IF o = "stop" THEN "nil" ELSE o]
                /\ childCtx' = [childCtx EXCEPT ![c] = TRUE]

\* Mutant of Callback: the helper returns the callback error without
\* cancelling the derived context.
CallbackNoCancel(c, v) ==
    \E o \in CallbackErrors :
        /\ cbLog' = [cbLog EXCEPT ![c] = Append(@, v)]
        /\ cbLast' = [cbLast EXCEPT ![c] = o]
        /\ IF o = "nil"
           THEN UNCHANGED <<cPc, cRet, childCtx>>
           ELSE /\ cPc' = [cPc EXCEPT ![c] = "returned"]
                /\ cRet' = [cRet EXCEPT ![c] = IF o = "stop" THEN "nil" ELSE o]
                /\ UNCHANGED childCtx

\* Mutant of Callback: the sentinel Stop is returned to the caller.
CallbackKeepStop(c, v) ==
    \E o \in CallbackErrors :
        /\ cbLog' = [cbLog EXCEPT ![c] = Append(@, v)]
        /\ cbLast' = [cbLast EXCEPT ![c] = o]
        /\ IF o = "nil"
           THEN UNCHANGED <<cPc, cRet, childCtx>>
           ELSE /\ cPc' = [cPc EXCEPT ![c] = "returned"]
                /\ cRet' = [cRet EXCEPT ![c] = o]
                /\ childCtx' = [childCtx EXCEPT ![c] = TRUE]

\* callbackTaskResults: callback(ctx, result) is called with value v, and what
\* SubmitStreamingBuffered does with its error: on an error the derived
\* context is cancelled and the helper returns it, Stop turned into nil.
Callback(c, v) ==
    \E o \in CallbackErrors :
        /\ cbLog' = [cbLog EXCEPT ![c] = Append(@, v)]
        /\ cbLast' = [cbLast EXCEPT ![c] = o]
        /\ IF o = "nil"
           THEN UNCHANGED <<cPc, cRet, childCtx>>
           ELSE /\ cPc' = [cPc EXCEPT ![c] = "returned"]
                /\ cRet' = [cRet EXCEPT ![c] = IF o = "stop" THEN "nil" ELSE o]
                /\ childCtx' = [childCtx EXCEPT ![c] = TRUE]

\* emitter.Emit, the select: case e.results <- value on a channel without
\* room, received at once by callbackTaskResults, which calls the callback.
\* Both selects also wait on the Done channel of the derived context, and an
\* unbuffered send completes only with a receiver parked in its select:
\* closing Done wakes a parked select with that case, and a select evaluated
\* after it finds Done ready and no partner parked, so no value is handed
\* over once the context is cancelled.
EmitHandoff(w) ==
    /\ wPc[w] = "emitSel"
    /\ Len(tResults[wTask[w]]) = rCap[wTask[w]]
    /\ tResults[wTask[w]] = <<>>
    /\ cPc[wTask[w]] = "loop"
    /\ ~Cancelled(wTask[w])
    /\ Callback(wTask[w], emitted[wTask[w]] + 1)
    /\ emitted' = [emitted EXCEPT ![wTask[w]] = @ + 1]
    /\ wPc' = [wPc EXCEPT ![w] = "emitPre"]
    /\ UNCHANGED <<mapVars, emitVars, drainVars, tRunRet, cGot, cValue, cAtSend, lifeVars, waitVars, watchVars, genVars, lockerVars, concurrency, resource, bufferCap, requests, closed, started, wg, wTask,
                   closeVars, loopVars, cCtx, cAtCall, cResult, cKind,
                   rCap, tResults, tResClosed, tErr, tExec, nEmit>>

\* A call of a helper begins: the task is wrapped with a result channel of
\* capacity cap; with a pre-check, a cancelled context returns its cause.
Call(c, kind, cap, n, precheck) ==
    /\ cPc[c] = "idle"
    /\ cKind' = [cKind EXCEPT ![c] = kind]
    /\ cAtCall' = [cAtCall EXCEPT ![c] = cCtx[c]]
    /\ rCap' = [rCap EXCEPT ![c] = cap]
    /\ nEmit' = [nEmit EXCEPT ![c] = n]
    /\ IF precheck /\ cCtx[c]
       THEN /\ cPc' = [cPc EXCEPT ![c] = "returned"]
            /\ cRet' = [cRet EXCEPT ![c] = "cause"]
       ELSE /\ cPc' = [cPc EXCEPT ![c] = "submitSel"]
            /\ UNCHANGED cRet
    /\ UNCHANGED <<mapVars, emitVars, drainVars, retVars, lifeVars, waitVars, watchVars, genVars, lockerVars, poolVars, closeVars, loopVars, cCtx, cResult, childCtx, cbLog,
                   tResults, tResClosed, tErr, tExec, emitted>>

\* Mutant of SubmitPrecheck: Submit without its pre-check.
SubmitNoPrecheck(c) == Call(c, "Submit", ResultBuffer, 0, FALSE)

\* workpool.Submit: the pre-check, then task.Wrap
SubmitPrecheck(c) == Call(c, "Submit", ResultBuffer, 0, TRUE)

\* workpool.SubmitStreamingBuffered: the pre-check, the derived context, then
\* task.WrapStreaming with the buffer given
StreamingPrecheck(c) ==
    \E cap \in 0 .. MaxBuffer, n \in 0 .. MaxEmit : Call(c, "Streaming", cap, n, TRUE)

\* pool.Submit: the pre-check
PoolSubmitPrecheck(c) == Call(c, "PoolSubmit", 0, 0, TRUE)

\* workpool.SubmitFunc: task.WrapFunc; there is no pre-check.
SubmitFuncCall(c) == Call(c, "SubmitFunc", ResultBuffer, 0, FALSE)

\* What the deferred cancel(context.Canceled) of SubmitStreamingBuffered does
\* when the helper returns.
DeferredCancel(c) ==
    childCtx' = [childCtx EXCEPT ![c] = (cKind[c] = "Streaming") \/ @]

\* The select on the requests channel: case <-ctx.Done()
SubmitCancelled(c) ==
    /\ cPc[c] = "submitSel"
    /\ Cancelled(c)
    /\ cPc' = [cPc EXCEPT ![c] = "returned"]
    /\ cRet' = [cRet EXCEPT ![c] = "cause"]
    /\ DeferredCancel(c)
    /\ UNCHANGED <<mapVars, emitVars, drainVars, retVars, lifeVars, waitVars, watchVars, genVars, lockerVars, poolVars, closeVars, loopVars, cCtx, cAtCall, cResult, cKind,
                   cbLog, rCap, tResults, tResClosed, tErr, tExec, nEmit, emitted>>

\* The select on the requests channel: case pool.Requests() <- valuelessTask;
\* pool.Submit returns nil, the helpers go on to wait for results.
SubmitEnqueue(c) ==
    /\ cPc[c] = "submitSel"
    /\ Enqueue(c)
    /\ cPc' = [cPc EXCEPT ![c] =
                 CASE cKind[c] = "Streaming" -> "loop"
                   [] cKind[c] = "PoolSubmit" -> "returned"
                   [] OTHER -> "await"]
    /\ cRet' = [cRet EXCEPT ![c] = IF cKind[c] = "PoolSubmit" THEN "nil" ELSE @]
    /\ cAtSend' = [cAtSend EXCEPT ![c] = cCtx[c] /\ cKind[c] \in {"Submit", "SubmitFunc"}]
    /\ UNCHANGED <<mapVars, emitVars, drainVars, cbLast, tRunRet, cGot, cValue, lifeVars, waitVars, watchVars, genVars, lockerVars, concurrency, resource, bufferCap, closed, started, wg, closeVars,
                   loopVars, cCtx, cAtCall, cResult, cKind, childCtx, cbLog,
                   rCap, tResults, tResClosed, tErr, tExec, nEmit, emitted>>

\* The select on the requests channel: the send case on a closed channel
\* panics; the deferred cancel of SubmitStreamingBuffered runs.
SubmitPanic(c) ==
    /\ cPc[c] = "submitSel"
    /\ closed
    /\ cPc' = [cPc EXCEPT ![c] = "panicked"]
    /\ DeferredCancel(c)
    /\ UNCHANGED <<mapVars, emitVars, drainVars, retVars, lifeVars, waitVars, watchVars, genVars, lockerVars, poolVars, closeVars, loopVars, cCtx, cAtCall, cResult, cKind,
                   cRet, cbLog, rCap, tResults, tResClosed, tErr, tExec, nEmit, emitted>>

\* Submit and SubmitFunc, the second select: case <-ctx.Done()
AwaitCancelled(c) ==
    /\ cPc[c] = "await"
    /\ cCtx[c]
    /\ cPc' = [cPc EXCEPT ![c] = "returned"]
    /\ cRet' = [cRet EXCEPT ![c] = "cause"]
    /\ cValue' = [cValue EXCEPT ![c] = 0]
    /\ cAtSend' = [cAtSend EXCEPT ![c] = FALSE]
    /\ UNCHANGED <<mapVars, emitVars, drainVars, cbLast, tRunRet, cGot, lifeVars, waitVars, watchVars, genVars, lockerVars, poolVars, closeVars, loopVars, cCtx, cAtCall, cResult, cKind,
                   childCtx, cbLog, rCap, tResults, tResClosed, tErr, tExec,
                   nEmit, emitted>>

\* Submit and SubmitFunc, the second select: case result := <-Results()
AwaitResult(c) ==
    /\ cPc[c] = "await"
    /\ tResults[c] # <<>> \/ tResClosed[c]
    /\ cGot' = [cGot EXCEPT ![c] = IF tResults[c] = <<>> THEN 0 ELSE Head(tResults[c])]
    /\ tResults' = [tResults EXCEPT ![c] = IF @ = <<>> THEN @ ELSE Tail(@)]
    /\ cPc' = [cPc EXCEPT ![c] = "drain"]
    /\ cAtSend' = [cAtSend EXCEPT ![c] = FALSE]
    /\ UNCHANGED <<mapVars, emitVars, drainVars, cbLast, tRunRet, cValue, lifeVars, waitVars, watchVars, genVars, lockerVars, poolVars, closeVars, loopVars, cCtx, cAtCall, cResult, cKind,
                   cRet, childCtx, cbLog, rCap, tResClosed, tErr, tExec, nEmit,
                   emitted>>

\* taskResult.Drain called by Submit and SubmitFunc: the range loop ends when
\* the channel is closed and empty, and *tr.err is returned; Submit returns
\* the zero value with an error and the received result without one.
Drain(c) ==
    /\ cPc[c] = "drain"
    /\ IF tResults[c] # <<>>
       THEN /\ tResults' = [tResults EXCEPT ![c] = Tail(@)]
            /\ UNCHANGED <<cPc, cRet, cValue>>
       ELSE /\ tResClosed[c]
            /\ cPc' = [cPc EXCEPT ![c] = "returned"]
            /\ cRet' = [cRet EXCEPT ![c] = tErr[c]]
            /\ cValue' = [cValue EXCEPT ![c] = IF tErr[c] = "nil" THEN cGot[c] ELSE 0]
            /\ UNCHANGED tResults
    /\ UNCHANGED <<mapVars, emitVars, drainVars, cbLast, cAtSend, tRunRet, cGot, lifeVars, waitVars, watchVars, genVars, lockerVars, poolVars, closeVars, loopVars, cCtx, cAtCall, cResult, cKind,
                   childCtx, cbLog, rCap, tResClosed, tErr, tExec, nEmit, emitted>>

\* Mutant of LoopCancelled: the cause is dropped and nil returned.
LoopCancelledNil(c) ==
    /\ cPc[c] = "loop"
    /\ Cancelled(c)
    /\ cPc' = [cPc EXCEPT ![c] = "returned"]
    /\ cRet' = [cRet EXCEPT ![c] = "nil"]
    /\ DeferredCancel(c)
    /\ UNCHANGED <<mapVars, emitVars, drainVars, retVars, lifeVars, waitVars, watchVars, genVars, lockerVars, poolVars, closeVars, loopVars, cCtx, cAtCall, cResult, cKind,
                   cbLog, rCap, tResults, tResClosed, tErr, tExec, nEmit, emitted>>

\* callbackTaskResults, the select: case <-ctx.Done(); the cause is the
\* callback error SubmitStreamingBuffered returns.
LoopCancelled(c) ==
    /\ cPc[c] = "loop"
    /\ Cancelled(c)
    /\ cPc' = [cPc EXCEPT ![c] = "returned"]
    /\ cRet' = [cRet EXCEPT ![c] = "cause"]
    /\ DeferredCancel(c)
    /\ UNCHANGED <<mapVars, emitVars, drainVars, retVars, lifeVars, waitVars, watchVars, genVars, lockerVars, poolVars, closeVars, loopVars, cCtx, cAtCall, cResult, cKind,
                   cbLog, rCap, tResults, tResClosed, tErr, tExec, nEmit, emitted>>

\* Mutant of LoopReceive: a received value is dropped, the callback not
\* called.
LoopReceiveSkip(c) ==
    /\ cPc[c] = "loop"
    /\ tResults[c] # <<>>
    /\ tResults' = [tResults EXCEPT ![c] = Tail(@)]
    /\ UNCHANGED <<mapVars, emitVars, drainVars, retVars, lifeVars, waitVars, watchVars, genVars, lockerVars, poolVars, closeVars, loopVars, callVars, cKind,
                   cRet, childCtx, cbLog, rCap, tResClosed, tErr, tExec, nEmit, emitted>>

\* callbackTaskResults, the select: case result, ok := <-resultsChan with a
\* buffered value
LoopReceive(c) ==
    /\ cPc[c] = "loop"
    /\ tResults[c] # <<>>
    /\ tResults' = [tResults EXCEPT ![c] = Tail(@)]
    /\ Callback(c, Head(tResults[c]))
    /\ UNCHANGED <<mapVars, emitVars, drainVars, tRunRet, cGot, cValue, cAtSend, lifeVars, waitVars, watchVars, genVars, lockerVars, poolVars, closeVars, loopVars, cCtx, cAtCall, cResult, cKind,
                   rCap, tResClosed, tErr, tExec, nEmit, emitted>>

\* callbackTaskResults, the select: the channel is closed; then
\* SubmitStreamingBuffered returns taskResults.Drain().
LoopClosed(c) ==
    /\ cPc[c] = "loop"
    /\ tResults[c] = <<>>
    /\ tResClosed[c]
    /\ cPc' = [cPc EXCEPT ![c] = "returned"]
    /\ cRet' = [cRet EXCEPT ![c] = tErr[c]]
    /\ DeferredCancel(c)
    /\ UNCHANGED <<mapVars, emitVars, drainVars, retVars, lifeVars, waitVars, watchVars, genVars, lockerVars, poolVars, closeVars, loopVars, cCtx, cAtCall, cResult, cKind,
                   cbLog, rCap, tResults, tResClosed, tErr, tExec, nEmit, emitted>>

\* p.Requests() <- task, a plain send (TestPoolConcurrency)
RequestsSend(c) ==
    /\ cPc[c] = "idle"
    /\ Enqueue(c)
    /\ cKind' = [cKind EXCEPT ![c] = "Requests"]
    /\ cPc' = [cPc EXCEPT ![c] = "ok"]
    /\ UNCHANGED <<mapVars, emitVars, drainVars, retVars, lifeVars, waitVars, watchVars, genVars, lockerVars, concurrency, resource, bufferCap, closed, started, wg, closeVars,
                   loopVars, cCtx, cAtCall, cResult, cRet, childCtx, cbLog,
                   rCap, tResults, tResClosed, tErr, tExec, nEmit, emitted>>

\* p.Requests() <- task on a closed channel panics (TestPoolSubmitAfterClose)
RequestsPanic(c) ==
    /\ cPc[c] = "idle"
    /\ closed
    /\ cKind' = [cKind EXCEPT ![c] = "Requests"]
    /\ cPc' = [cPc EXCEPT ![c] = "panicked"]
    /\ UNCHANGED <<mapVars, emitVars, drainVars, retVars, lifeVars, waitVars, watchVars, genVars, lockerVars, poolVars, closeVars, loopVars, cCtx, cAtCall, cResult, cRet,
                   childCtx, cbLog, rCap, tResults, tResClosed, tErr, tExec,
                   nEmit, emitted>>

\* pool.Close has returned and Close is called again.
CloseAgain ==
    /\ closePc = "poolClosed"
    /\ closePc' = "idle"
    /\ UNCHANGED <<mapVars, emitVars, drainVars, retVars, lifeVars, waitVars, watchVars, genVars, lockerVars, poolVars, closeStarted, loopVars, callVars, taskVars>>

\* ------------------------------------------------------------------------
\* The worker pool's specifications
\* ------------------------------------------------------------------------
\* NewBuffered(resource, concurrency, buffer): not started, the WaitGroup
\* pre-charged with the number of workers.  The event loop's fields are unused.
NewPoolBuffered(buffers) ==
    /\ resource = "nil"
    /\ bufferCap \in buffers
    /\ requests = <<>>
    /\ closed = FALSE
    /\ started = FALSE
    /\ wg = concurrency
    /\ wPc = [w \in Workers |-> "none"]
    /\ wTask = [w \in Workers |-> 0]
    /\ closePc = "idle"
    /\ closeStarted = FALSE
    /\ cPc = [c \in Senders |-> "idle"]
    /\ cCtx = [c \in Senders |-> FALSE]
    /\ cAtCall = [c \in Senders |-> FALSE]
    /\ cResult = [c \in Senders |-> 0]
    /\ NoTasks
    /\ NoLifecycle
    /\ NoMaps
    /\ NoWaiters
    /\ NoWatch
    /\ wSnap = NewSnapshot(0)
    /\ wNext = NewSnapshot(0)
    /\ snapshotPtr = NewSnapshot(0)
    /\ expired = {}
    /\ done = FALSE
    /\ generation = 0
    /\ lockChannel = NewChannelLock
    /\ dispatchLog = <<>>
    /\ published = <<>>

\* The pools of the tests: a request channel of capacity 0 .. MaxBuffer.
NewPool == NewPoolBuffered(0 .. MaxBuffer)

PoolInit ==
    /\ concurrency \in 1 .. MaxWorkers
    /\ NewPool
    /\ NoGenerator
    /\ NoLockers

PoolClose ==
    \/ CloseRequests
    \/ CloseLoad
    \/ CloseWait
    \/ CloseAgain

\* Tasks are sent on Requests() directly.
PoolNext ==
    \/ Start
    \/ PoolClose
    \/ \E w \in Workers : WorkerRecv(w) \/ WorkerExit(w) \/ ExecuteValueless(w)
    \/ \E c \in Senders : RequestsSend(c) \/ RequestsPanic(c)

PoolSpec == PoolInit /\ [][PoolNext]_vars

SubmitWorker(w) ==
    \/ WorkerRecv(w)
    \/ ExecuteTask(w)
    \/ ExecutePublish(w)
    \/ ExecuteClose(w)
    \/ ExecuteValueless(w)
    \/ ExecuteStreaming(w)
    \/ StreamingReturn(w)
    \/ EmitPrecheck(w)
    \/ EmitCancelled(w)
    \/ EmitSend(w)
    \/ EmitHandoff(w)

SubmitCaller(c) ==
    \/ SubmitPrecheck(c)
    \/ StreamingPrecheck(c)
    \/ PoolSubmitPrecheck(c)
    \/ SubmitFuncCall(c)
    \/ SubmitCancelled(c)
    \/ SubmitEnqueue(c)
    \/ AwaitCancelled(c)
    \/ AwaitResult(c)
    \/ Drain(c)
    \/ LoopCancelled(c)
    \/ LoopReceive(c)
    \/ LoopClosed(c)
    \/ CtxCancel(c)

\* Tasks are submitted through Submit, SubmitStreamingBuffered, SubmitFunc and
\* pool.Submit, to a pool that stays open while the calls are made (the tests
\* defer p.Close() to their end); closing is the subject of PoolSpec.
SubmitNext ==
    \/ Start
    \/ \E w \in Workers : SubmitWorker(w)
    \/ \E c \in Submitters : SubmitCaller(c)

\* TestSubmitContextCancelled: pool := workpool.New[any](nil, 1)
SubmitWorkers == 1

SubmitInit ==
    /\ concurrency = SubmitWorkers
    /\ NewPool
    /\ NoGenerator
    /\ NoLockers

SubmitSpec == SubmitInit /\ [][SubmitNext]_vars

\* ------------------------------------------------------------------------
\* Properties of the event loop
\* ------------------------------------------------------------------------
\* The positions of the Dispatch calls made for event c.
DispatchesOf(c) == {i \in DOMAIN dispatchLog : dispatchLog[i][1] = c}

\* The positions of the snapshots stored as the result of event c.
PublishedOf(c) == {i \in DOMAIN published : published[i][1] = c}

\* C1: under any interleaving of concurrent Send calls, an event whose Send
\* returned generation g is dispatched at most once, and exactly once when the
\* loop worker has exited; its Dispatch is called with generation argument g
\* and its result is stored as the snapshot of generation g; and events are
\* dispatched in increasing order of the generations their Sends returned.
SendDispatchAgree ==
    /\ \A c \in Senders :
        /\ Cardinality(DispatchesOf(c)) <= 1
        /\ Cardinality(PublishedOf(c)) <= 1
    /\ \A c \in Sent :
        /\ \A i \in DispatchesOf(c) : dispatchLog[i][2] = cResult[c]
        /\ \A i \in PublishedOf(c) : published[i][2] = cResult[c]
        /\ wPc[1] = "exited" =>
               Cardinality(DispatchesOf(c)) = 1 /\ Cardinality(PublishedOf(c)) = 1
    /\ \A i, j \in DOMAIN dispatchLog :
        (/\ i < j
         /\ dispatchLog[i][1] \in Sent
         /\ dispatchLog[j][1] \in Sent)
        => cResult[dispatchLog[i][1]] < cResult[dispatchLog[j][1]]

\* C1 witness: two concurrent Sends, the second caller was given the first
\* generation, and both events have been dispatched and published.
SendDispatchAgreeWitness ==
    /\ Sent = Senders
    /\ cResult[2] = 1
    /\ cResult[1] = 2
    /\ Len(published) = 2

\* C2: on a started loop every successful Send returning generation g is
\* eventually followed by a snapshot whose generation is at least g, also
\* when Close is called after the Send.
SendEventuallyPublished ==
    \A c \in Senders :
        (cPc[c] = "ok" /\ started) ~> (snapshotPtr.gen >= cResult[c])

\* C2 witness: a Send succeeded, Close was called and has returned, and the
\* snapshot has reached the returned generation.
SendEventuallyPublishedWitness ==
    /\ cPc[1] = "ok"
    /\ cResult[1] = 2
    /\ closePc = "returned"
    /\ started
    /\ snapshotPtr.gen >= cResult[1]

\* C8: successful Sends return the consecutive generations initial+1,
\* initial+2, ...; the counter counts exactly the successful Sends; a Send
\* that failed has enqueued nothing, has not advanced the counter, and its
\* event is never dispatched nor published.
SendGenerationAccounting ==
    /\ {cResult[c] : c \in Sent} = 1 .. Cardinality(Sent)
    /\ generation = NewSnapshot(0).gen + Cardinality(Sent)
    /\ \A c \in Senders :
        cPc[c] \in {"failed", "panicked"} =>
            /\ cResult[c] = 0
            /\ \A i \in DOMAIN requests : requests[i] # c
            /\ \A w \in DOMAIN wTask : wTask[w] # c
            /\ DispatchesOf(c) = {}
            /\ PublishedOf(c) = {}
    /\ snapshotPtr.gen <= Cardinality({c \in Senders : cPc[c] \in {"inc", "ok"}})

\* C8 witness: one Send failed because its context was cancelled while it
\* was in progress, the other succeeded with the first generation, and its
\* event is published.
SendGenerationAccountingWitness ==
    /\ cPc[1] = "failed"
    /\ ~cAtCall[1]
    /\ cPc[2] = "ok"
    /\ cResult[2] = 1
    /\ snapshotPtr.gen = 1

\* C9: whenever a snapshot's expiration is closed the pointer already holds
\* a snapshot of a greater generation; the snapshot the pointer holds is
\* never expired; and every superseded snapshot is eventually expired.
ExpirationIffSuperseded ==
    /\ [](\A g \in expired : snapshotPtr.gen > g)
    /\ [](snapshotPtr.gen \notin expired)
    /\ \A g \in 0 .. NSenders : (snapshotPtr.gen > g) ~> (g \in expired)

\* C9 witness: the loop is closed, its worker has exited, the first snapshot
\* is expired and the final one is not.
ExpirationIffSupersededWitness ==
    /\ done
    /\ wPc[1] = "exited"
    /\ snapshotPtr.gen = 1
    /\ expired = {0}

\* C10: in every state where Done() is closed, every event whose Send
\* succeeded has been dispatched and its snapshot published.
DoneAfterAllProcessed ==
    done => \A c \in Sent : DispatchesOf(c) # {} /\ PublishedOf(c) # {}

\* ------------------------------------------------------------------------
\* generator (generator) with its emitter (results) and a consumer
\* ------------------------------------------------------------------------
\* Everything but the generator and its consumer.
nonGenVars == <<poolVars, closeVars, loopVars, callVars, taskVars, lockerVars,
                waitVars, watchVars>>

\* The context given to Start is cancelled by its owner, while the producer
\* can still read it.
GenCtxCancel ==
    /\ ~gCtx
    /\ gPc \in {"none", "emitPre", "emitSel"}
    /\ gCtx' = TRUE
    /\ gCancelEarly' = (received = <<>>)
    /\ UNCHANGED <<mapVars, emitVars, drainVars, retVars, lifeVars, nonGenVars, gRunRet, gOnce, gCloseCount, gExtra, gWaitRet, gCap, gResults, gResClosed, gDone, gErr, gStarted,
                   gPc, gValues, gNext, rPc, received, waitRet>>

\* generator.Start: gen.started.Swap(true), then go gen.startInner(ctx, h),
\* which calls gen.producer.Run(ctx, h).
GenStart ==
    /\ ~gStarted
    /\ gStarted' = TRUE
    /\ gPc' = "emitPre"
    /\ UNCHANGED <<mapVars, emitVars, drainVars, retVars, lifeVars, nonGenVars, genAux, gCap, gResults, gResClosed, gDone, gErr, gCtx,
                   gValues, gNext, rPc, received, waitRet>>

\* testRunner.Run: the range loop over r.values is over and r.err is
\* returned.
RunReturn ==
    /\ gPc = "emitPre"
    /\ gNext > gValues
    /\ \E e \in TaskErrors : gRunRet' = e
    /\ gPc' = "storeErr"
    /\ UNCHANGED <<mapVars, emitVars, drainVars, retVars, lifeVars, nonGenVars, gOnce, gCloseCount, gExtra, gCancelEarly, gWaitRet, gCap, gResults, gResClosed, gDone, gErr, gStarted, gCtx,
                   gValues, gNext, rPc, received, waitRet>>

\* Mutant of GenEmitPrecheck: Emit goes to its select without the pre-check.
GenEmitNoPrecheck ==
    /\ gPc = "emitPre"
    /\ gNext <= gValues
    /\ gPc' = "emitSel"
    /\ UNCHANGED <<mapVars, emitVars, drainVars, retVars, lifeVars, nonGenVars, genAux, gCap, gResults, gResClosed, gDone, gErr,
                   gStarted, gCtx, gValues, gNext, rPc, received, waitRet>>

\* emitter.Emit, the pre-check: a cancelled context returns its cause, which
\* Run returns.
GenEmitPrecheck ==
    /\ gPc = "emitPre"
    /\ gNext <= gValues
    /\ IF gCtx
       THEN gRunRet' = "cause" /\ gPre' = TRUE /\ gPc' = "storeErr"
       ELSE gPc' = "emitSel" /\ UNCHANGED <<gRunRet, gPre>>
    /\ UNCHANGED <<mapVars, tPre, drainVars, retVars, lifeVars, nonGenVars, gOnce, gCloseCount, gExtra, gCancelEarly, gWaitRet, gCap, gResults, gResClosed, gDone, gErr, gStarted, gCtx,
                   gValues, gNext, rPc, received, waitRet>>

\* emitter.Emit, the select: case <-ctx.Done()
GenEmitCancelled ==
    /\ gPc = "emitSel"
    /\ gCtx
    /\ gRunRet' = "cause"
    /\ gPc' = "storeErr"
    /\ UNCHANGED <<mapVars, emitVars, drainVars, retVars, lifeVars, nonGenVars, gOnce, gCloseCount, gExtra, gCancelEarly, gWaitRet, gCap, gResults, gResClosed, gDone, gErr, gStarted, gCtx,
                   gValues, gNext, rPc, received, waitRet>>

\* Mutant of GenEmitSend: Emit returns nil without the value in the channel.
GenEmitLost ==
    /\ gPc = "emitSel"
    /\ gNext' = gNext + 1
    /\ gPc' = "emitPre"
    /\ UNCHANGED <<mapVars, emitVars, drainVars, retVars, lifeVars, nonGenVars, genAux, gCap, gResults, gResClosed, gDone, gErr, gStarted,
                   gCtx, gValues, rPc, received, waitRet>>

\* emitter.Emit, the select: case e.results <- value, into the buffer
GenEmitSend ==
    /\ gPc = "emitSel"
    /\ Len(gResults) < gCap
    /\ gResults' = Append(gResults, gNext)
    /\ gNext' = gNext + 1
    /\ gPc' = "emitPre"
    /\ UNCHANGED <<mapVars, emitVars, drainVars, retVars, lifeVars, nonGenVars, genAux, gCap, gResClosed, gDone, gErr, gStarted, gCtx,
                   gValues, rPc, received, waitRet>>

\* emitter.Emit, the select: case e.results <- value on a channel without
\* room, received at once by the consumer blocked in its range loop.
GenEmitHandoff ==
    /\ gPc = "emitSel"
    /\ Len(gResults) = gCap
    /\ gResults = <<>>
    /\ rPc = "recv"
    /\ received' = Append(received, gNext)
    /\ gNext' = gNext + 1
    /\ gPc' = "emitPre"
    /\ UNCHANGED <<mapVars, emitVars, drainVars, retVars, lifeVars, nonGenVars, genAux, gCap, gResults, gResClosed, gDone, gErr, gStarted,
                   gCtx, gValues, rPc, waitRet>>

\* startInner: gen.err = gen.producer.Run(ctx, h), the assignment
StoreErr ==
    /\ gPc = "storeErr"
    /\ gErr' = gRunRet
    /\ gPc' = "closeDone"
    /\ UNCHANGED <<mapVars, emitVars, drainVars, retVars, lifeVars, nonGenVars, genAux, gCap, gResults, gResClosed, gDone, gStarted,
                   gCtx, gValues, gNext, rPc, received, waitRet>>

\* Mutant of GenCloseDone: gen.done is closed before gen.err is assigned.
GenCloseDoneEarly ==
    /\ gPc = "storeErr"
    /\ gDone' = TRUE
    /\ UNCHANGED <<mapVars, emitVars, drainVars, retVars, lifeVars, nonGenVars, genAux, gCap, gResults, gResClosed, gErr, gStarted,
                   gCtx, gPc, gValues, gNext, rPc, received, waitRet>>

\* startInner returns: the deferred close(gen.done) runs first.
GenCloseDone ==
    /\ gPc = "closeDone"
    /\ gDone' = TRUE
    /\ gPc' = "closeResults"
    /\ UNCHANGED <<mapVars, emitVars, drainVars, retVars, lifeVars, nonGenVars, genAux, gCap, gResults, gResClosed, gErr, gStarted, gCtx,
                   gValues, gNext, rPc, received, waitRet>>

\* Mutant of EmitterClose: close(e.results) without the sync.Once.
EmitterCloseUnguarded ==
    /\ gOnce' = TRUE
    /\ gResClosed' = TRUE
    /\ gCloseCount' = gCloseCount + 1

\* emitter.Close: e.closeOnce.Do(e.closeResults); closeResults closes the
\* results channel, and only the first call runs it.
EmitterClose ==
    IF gOnce
    THEN UNCHANGED <<gOnce, gResClosed, gCloseCount>>
    ELSE /\ gOnce' = TRUE
         /\ gResClosed' = TRUE
         /\ gCloseCount' = gCloseCount + 1

\* startInner returns: the deferred h.Close() runs last.
GenCloseResults ==
    /\ gPc = "closeResults"
    /\ EmitterClose
    /\ gPc' = "returned"
    /\ UNCHANGED <<mapVars, emitVars, drainVars, retVars, lifeVars, nonGenVars, gRunRet, gExtra, gCancelEarly, gWaitRet, gCap,
                   gResults, gDone, gErr, gStarted, gCtx, gValues, gNext, rPc,
                   received, waitRet>>

\* A further call of Emitter.Close by a goroutine that still has the emitter
\* once Run has returned, concurrent with the deferred one.
CloseAgainEmitter ==
    /\ gRunRet # "none"
    /\ gExtra < MaxCloses
    /\ EmitterClose
    /\ gExtra' = gExtra + 1
    /\ UNCHANGED <<mapVars, emitVars, drainVars, retVars, lifeVars, nonGenVars, gRunRet, gCancelEarly, gWaitRet, gCap, gResults,
                   gDone, gErr, gStarted, gCtx, gPc, gValues, gNext, rPc,
                   received, waitRet>>

\* The consumer reaches for val := range gen.Results().
RangeBegin ==
    /\ rPc = "idle"
    /\ rPc' = "recv"
    /\ UNCHANGED <<mapVars, emitVars, drainVars, retVars, lifeVars, nonGenVars, genAux, gCap, gResults, gResClosed, gDone, gErr, gStarted,
                   gCtx, gPc, gValues, gNext, received, waitRet>>

\* The range loop receives a buffered value: received = append(received, val)
RangeReceive ==
    /\ rPc = "recv"
    /\ gResults # <<>>
    /\ received' = Append(received, Head(gResults))
    /\ gResults' = Tail(gResults)
    /\ UNCHANGED <<mapVars, emitVars, drainVars, retVars, lifeVars, nonGenVars, genAux, gCap, gResClosed, gDone, gErr, gStarted, gCtx,
                   gPc, gValues, gNext, rPc, waitRet>>

\* The range loop ends: the channel is closed and empty.
RangeEnd ==
    /\ rPc = "recv"
    /\ gResults = <<>>
    /\ gResClosed
    /\ rPc' = "wait"
    /\ UNCHANGED <<mapVars, emitVars, drainVars, retVars, lifeVars, nonGenVars, genAux, gCap, gResults, gResClosed, gDone, gErr, gStarted,
                   gCtx, gPc, gValues, gNext, received, waitRet>>

\* generator.Wait: <-gen.done; return gen.err
Wait ==
    /\ rPc = "wait"
    /\ gDone
    /\ waitRet' = gErr
    /\ rPc' = "done"
    /\ UNCHANGED <<mapVars, emitVars, drainVars, retVars, lifeVars, nonGenVars, genAux, gCap, gResults, gResClosed, gDone, gErr, gStarted,
                   gCtx, gPc, gValues, gNext, received>>

\* generator.Wait called by any other goroutine, any number of times:
\* <-gen.done; return gen.err
WaitAny(i) ==
    /\ gDone
    /\ gWaitRet' = [gWaitRet EXCEPT ![i] = gErr]
    /\ UNCHANGED <<mapVars, emitVars, drainVars, retVars, lifeVars, nonGenVars, gRunRet, gOnce, gCloseCount, gExtra, gCancelEarly,
                   gCap, gResults, gResClosed, gDone, gErr, gStarted, gCtx, gPc,
                   gValues, gNext, rPc, received, waitRet>>

\* No pool and no event loop are in use.
NoPool ==
    /\ concurrency = 0
    /\ NewPool
    /\ bufferCap = 0

\* NewBuffered(producer, buffer) with a testRunner of gValues values: not
\* started, nothing emitted.
GenInit ==
    /\ gCap \in 0 .. MaxBuffer
    /\ gValues \in 0 .. MaxValues
    /\ gResults = <<>>
    /\ gResClosed = FALSE
    /\ gDone = FALSE
    /\ gErr = "nil"
    /\ gStarted = FALSE
    /\ gCtx = FALSE
    /\ gPc = "none"
    /\ gNext = 1
    /\ rPc = "idle"
    /\ received = <<>>
    /\ waitRet = "none"
    /\ NoGenHistory
    /\ NoPool
    /\ NoLockers

Producer ==
    \/ RunReturn
    \/ StoreErr
    \/ GenEmitPrecheck
    \/ GenEmitCancelled
    \/ GenEmitSend
    \/ GenEmitHandoff
    \/ GenCloseDone
    \/ GenCloseResults

Consumer ==
    \/ RangeBegin
    \/ RangeReceive
    \/ RangeEnd
    \/ Wait

GenNext ==
    \/ GenStart
    \/ GenCtxCancel
    \/ Producer
    \/ Consumer
    \/ CloseAgainEmitter
    \/ \E i \in GenWaiters : WaitAny(i)

GenSpec == GenInit /\ [][GenNext]_vars

\* The goroutine of startInner and the consumer are scheduled: a step of
\* theirs that stays possible is taken.
GenFairSpec == GenSpec /\ WF_vars(Producer) /\ WF_vars(Consumer)

\* ------------------------------------------------------------------------
\* Properties of the generator
\* ------------------------------------------------------------------------
\* The sequence <<1, ..., n>> the producer emits.
Values(n) == [i \in 1 .. n |-> i]

\* C4: for every capacity of the result channel, the consumer at all times
\* holds a prefix of the emitted sequence, in order and without duplicates;
\* when the context was not cancelled and the producer returned nil, the
\* consumer sees the channel closed only after it received exactly v1..vn,
\* and Wait then returns nil.
GeneratorRoundTrip ==
    /\ Len(received) <= gValues
    /\ received = Values(Len(received))
    /\ (rPc \in {"wait", "done"} /\ ~gCtx /\ gErr = "nil") =>
           received = Values(gValues)
    /\ (rPc = "done" /\ ~gCtx /\ gErr = "nil") => waitRet = "nil"

GeneratorRoundTripWitness ==
    /\ rPc = "done"
    /\ ~gCtx
    /\ waitRet = "nil"
    /\ gCap = 0
    /\ gValues = MaxValues
    /\ received = Values(MaxValues)

\* Run has returned.
ProducerReturned == gRunRet # "none"

\* C17: the results channel of a started generator is closed at most once,
\* however many further Emitter.Close calls are made; it is closed only once
\* the producer has returned, so that nothing is emitted on a closed channel;
\* and once the producer has returned it is eventually closed.
ResultsClosedOnce ==
    /\ [](gCloseCount <= 1)
    /\ [](gResClosed <=> gCloseCount = 1)
    /\ [](gResClosed => ProducerReturned /\ gPc \notin {"none", "emitPre", "emitSel"})
    /\ (ProducerReturned ~> gResClosed)

\* startInner has returned and every further Close call has been made; the
\* channel was closed once.
ResultsClosedOnceWitness ==
    /\ gPc = "returned"
    /\ gExtra = MaxCloses
    /\ gCloseCount = 1
    /\ gResClosed

\* C18: gen.done is closed only after Run has returned and gen.err holds what
\* it returned, so that every Wait call, from the consumer or from any other
\* goroutine, returns exactly what Run returned.
WaitReturnsProducerValue ==
    /\ gDone => ProducerReturned /\ gErr = gRunRet
    /\ waitRet # "none" => ProducerReturned /\ waitRet = gRunRet
    /\ \A i \in GenWaiters :
           gWaitRet[i] # "none" => ProducerReturned /\ gWaitRet[i] = gRunRet

\* The producer returned an error of its own and Wait returned it to the
\* consumer and to every other caller.
WaitReturnsProducerValueWitness ==
    /\ gRunRet = "taskErr"
    /\ waitRet = "taskErr"
    /\ \A i \in GenWaiters : gWaitRet[i] = "taskErr"

\* C19: whenever the completion signal gen.done is closed, the results
\* channel is already closed.
DoneImpliesResultsClosed == gDone => gResClosed

\* The case of TestGeneratorContextCancellation: an unbuffered generator with
\* at least two values whose context was cancelled before any receive.
CancelledMidStream == gCancelEarly /\ gCap = 0 /\ gValues >= 2

\* C20: an unbuffered generator emitting at least two values whose context is
\* cancelled before the consumer received anything: Run returns the
\* cancellation cause and so does Wait; the values received are a prefix of
\* those emitted; the producer terminates and the channel is closed, and a
\* consumer reading the channel reaches its end and Wait returns.
CancelMidStream ==
    /\ []((CancelledMidStream /\ ProducerReturned) => gRunRet = "cause")
    /\ []((CancelledMidStream /\ rPc = "done") => waitRet = "cause")
    /\ [](CancelledMidStream =>
              Len(received) <= gValues /\ received = Values(Len(received)))
    /\ ((CancelledMidStream /\ gStarted) ~> (gPc = "returned" /\ gResClosed))
    /\ ((CancelledMidStream /\ gStarted /\ rPc = "recv") ~> (rPc = "done"))

\* The context was cancelled while the producer was blocked in Emit with no
\* reader, one value still got through, and Wait returned the cause.
CancelMidStreamWitness ==
    /\ CancelledMidStream
    /\ gValues = MaxValues
    /\ rPc = "done"
    /\ waitRet = "cause"
    /\ received = Values(1)

\* ------------------------------------------------------------------------
\* ChannelLock used by goroutines directly
\* ------------------------------------------------------------------------
\* Everything but the lock's channel and the goroutines using it.
nonLockVars == <<poolVars, closeVars, snapshotPtr, expired, done, generation,
                 wSnap, wNext, dispatchLog, published, callVars, taskVars,
                 genVars, waitVars, watchVars>>

\* The context of goroutine g is cancelled by its owner, while a
\* LockWithContext call can still read it.
LockCtxCancel(g) ==
    /\ ~lCtx[g]
    /\ lPc[g] \in {"idle", "acquire"}
    /\ lCtx' = [lCtx EXCEPT ![g] = TRUE]
    /\ UNCHANGED <<mapVars, emitVars, drainVars, retVars, lifeVars, nonLockVars, lockChannel, lPc, lCount>>

\* Mutant of LockWithContext: the call goes to its select without the
\* pre-check.
LockWithContextNoPrecheck(g) ==
    /\ lPc[g] = "idle"
    /\ lCount[g] < MaxRounds
    /\ lPc' = [lPc EXCEPT ![g] = "acquire"]
    /\ UNCHANGED <<mapVars, emitVars, drainVars, retVars, lifeVars, nonLockVars, lockChannel, lCtx, lCount>>

\* ChannelLock.LockWithContext, the pre-check: a cancelled context returns
\* its cause.
LockWithContext(g) ==
    /\ lPc[g] = "idle"
    /\ lCount[g] < MaxRounds
    /\ lPc' = [lPc EXCEPT ![g] = IF lCtx[g] THEN "failed" ELSE "acquire"]
    /\ UNCHANGED <<mapVars, emitVars, drainVars, retVars, lifeVars, nonLockVars, lockChannel, lCtx, lCount>>

\* ChannelLock.Lock is called: a plain receive on l.channel, which no
\* context interrupts.
Lock(g) ==
    /\ lPc[g] = "idle"
    /\ lCount[g] < MaxRounds
    /\ lPc' = [lPc EXCEPT ![g] = "lock"]
    /\ UNCHANGED <<mapVars, emitVars, drainVars, retVars, lifeVars, nonLockVars, lockChannel, lCtx, lCount>>

\* ChannelLock.LockWithContext, the select: case <-ctx.Done()
AcquireCancelled(g) ==
    /\ lPc[g] = "acquire"
    /\ lCtx[g]
    /\ lPc' = [lPc EXCEPT ![g] = "failed"]
    /\ UNCHANGED <<mapVars, emitVars, drainVars, retVars, lifeVars, nonLockVars, lockChannel, lCtx, lCount>>

\* Mutant of AcquireToken: the lock is acquired whether or not the token is
\* in the channel.
AcquireNoToken(g) ==
    /\ lPc[g] \in {"acquire", "lock"}
    /\ lPc' = [lPc EXCEPT ![g] = "held"]
    /\ UNCHANGED <<mapVars, emitVars, drainVars, retVars, lifeVars, nonLockVars, lockChannel, lCtx, lCount>>

\* ChannelLock.LockWithContext, the select: case <-l.channel
AcquireToken(g) ==
    /\ lPc[g] \in {"acquire", "lock"}
    /\ TokenReady
    /\ TakeToken
    /\ lPc' = [lPc EXCEPT ![g] = "held"]
    /\ UNCHANGED <<mapVars, emitVars, drainVars, retVars, lifeVars, nonLockVars, lCtx, lCount>>

\* The holder leaves its critical section: ChannelLock.Unlock
Release(g) ==
    /\ lPc[g] = "held"
    /\ Unlock
    /\ lPc' = [lPc EXCEPT ![g] = "idle"]
    /\ lCount' = [lCount EXCEPT ![g] = @ + 1]
    /\ UNCHANGED <<mapVars, emitVars, drainVars, retVars, lifeVars, nonLockVars, lCtx>>

\* ChannelLock.Unlock is called by a goroutine that does not hold the lock
\* (TestChannelLockDoubleUnlock).
UnlockCall(g) ==
    /\ lPc[g] = "idle"
    /\ lPc' = [lPc EXCEPT ![g] = "unlock"]
    /\ UNCHANGED <<mapVars, emitVars, drainVars, retVars, lifeVars, nonLockVars, lockChannel, lCtx, lCount>>

\* Mutant of UnlockSelect: on a full channel Unlock returns without a panic.
UnlockSilent(g) ==
    /\ lPc[g] = "unlock"
    /\ Unlock
    /\ lPc' = [lPc EXCEPT ![g] = "idle"]
    /\ UNCHANGED <<mapVars, emitVars, drainVars, retVars, lifeVars, nonLockVars, lCtx, lCount>>

\* ChannelLock.Unlock, the select: the token is sent when the channel has
\* room, and the default case panics when it has none.
UnlockSelect(g) ==
    /\ lPc[g] = "unlock"
    /\ Unlock
    /\ lPc' = [lPc EXCEPT ![g] = IF lockChannel < 1 THEN "idle" ELSE "panicked"]
    /\ UNCHANGED <<mapVars, emitVars, drainVars, retVars, lifeVars, nonLockVars, lCtx, lCount>>

\* NewChannelLock(): the token is in the channel, no goroutine holds the lock.
LockInit ==
    /\ lockChannel = NewChannelLock
    /\ NoPool
    /\ NoGenerator
    /\ NoLockers

Locker(g) ==
    \/ LockCtxCancel(g)
    \/ LockWithContext(g)
    \/ Lock(g)
    \/ AcquireCancelled(g)
    \/ AcquireToken(g)
    \/ Release(g)

LockNext == \E g \in Lockers : Locker(g)

LockSpec == LockInit /\ [][LockNext]_vars

\* Goroutines that also call Unlock without holding the lock.
UnlockNext ==
    \E g \in Lockers :
        \/ Locker(g)
        \/ UnlockCall(g)
        \/ UnlockSelect(g)

UnlockSpec == LockInit /\ [][UnlockNext]_vars

\* ------------------------------------------------------------------------
\* Properties of ChannelLock
\* ------------------------------------------------------------------------
\* The goroutines between a successful Lock or LockWithContext and Unlock.
Holders == {g \in Lockers : lPc[g] = "held"}

\* C5: at most one goroutine holds the lock, and the tokens in the channel
\* plus the holders are always exactly one.
MutualExclusion ==
    /\ Cardinality(Holders) <= 1
    /\ lockChannel + Cardinality(Holders) = 1

\* One goroutine holds the lock after a round by the other, which is blocked
\* acquiring again.
MutualExclusionWitness ==
    \E g, h \in Lockers :
        /\ lPc[g] = "held"
        /\ lPc[h] \in {"acquire", "lock"}
        /\ lCount[h] > 0
        /\ lockChannel = 0

\* ------------------------------------------------------------------------
\* Properties of the worker pool
\* ------------------------------------------------------------------------
\* The tasks whose send on Requests() completed.
Enqueued == {c \in Senders : cPc[c] = "ok"}

\* The workers that left the range loop over the closed requests channel.
Exited == {w \in Workers : wPc[w] = "exited"}

\* C3: when Close returns on a pool that had been started when Close was
\* called, every enqueued task has been executed exactly once, exactly
\* concurrency workers have seen the closed channel and exited, none is still
\* running, and the queue is empty; no task is ever executed twice.
CloseDrainsPool ==
    /\ \A c \in Senders : tExec[c] <= 1
    /\ (closePc = "poolClosed" /\ closeStarted) =>
           /\ Exited = 1 .. concurrency
           /\ Cardinality(Exited) = concurrency
           /\ wg = 0
           /\ requests = <<>>
           /\ \A c \in Enqueued : tExec[c] = 1

CloseDrainsPoolWitness ==
    /\ closePc = "poolClosed"
    /\ closeStarted
    /\ concurrency = MaxWorkers
    /\ Enqueued = Senders
    /\ \A c \in Senders : tExec[c] = 1

\* ------------------------------------------------------------------------
\* Properties of the submit helpers
\* ------------------------------------------------------------------------
\* Task c is in the request queue or in the hands of a worker.
InPool(c) ==
    \/ \E i \in 1 .. Len(requests) : requests[i] = c
    \/ \E w \in Workers : wTask[w] = c

\* The helpers that check the context before anything else.
Prechecked == {"Submit", "Streaming", "PoolSubmit"}

\* C6: a call of Submit, SubmitStreamingBuffered or pool.Submit made with a
\* context that is already cancelled returns the cancellation cause, and its
\* task is at no time in the request queue or with a worker and is never
\* executed.
CancelledBeforeSubmit ==
    \A c \in Senders :
        (cAtCall[c] /\ cKind[c] \in Prechecked) =>
            /\ cPc[c] = "returned"
            /\ cRet[c] = "cause"
            /\ ~InPool(c)
            /\ tExec[c] = 0

\* A cancelled Submit has returned while the worker is idle and the queue is
\* empty.
CancelledBeforeSubmitWitness ==
    \E c \in Senders :
        /\ cAtCall[c]
        /\ cKind[c] = "Submit"
        /\ cPc[c] = "returned"
        /\ started
        /\ Receivers # {}
        /\ requests = <<>>

\* C7: a call of SubmitFunc made with a context that is already cancelled
\* returns the cancellation cause and its function is never executed.
SubmitFuncCancelledNeverRuns ==
    \A c \in Senders :
        (cAtCall[c] /\ cKind[c] = "SubmitFunc") =>
            /\ tExec[c] = 0
            /\ cPc[c] = "returned" => cRet[c] = "cause"

\* ------------------------------------------------------------------------
\* The bounded result channel behind an emitter
\* ------------------------------------------------------------------------
\* A worker executing a streaming task.
StreamingWorker(w) ==
    \/ WorkerRecv(w)
    \/ ExecuteStreaming(w)
    \/ StreamingReturn(w)
    \/ EmitPrecheck(w)
    \/ EmitCancelled(w)
    \/ EmitSend(w)
    \/ EmitHandoff(w)
    \/ ExecuteClose(w)

\* A caller of SubmitStreamingBuffered.
StreamingCaller(c) ==
    \/ StreamingPrecheck(c)
    \/ SubmitCancelled(c)
    \/ SubmitEnqueue(c)
    \/ LoopCancelled(c)
    \/ LoopReceive(c)
    \/ LoopClosed(c)
    \/ CtxCancel(c)

\* The program uses a generator, and no pool.
UsesGenerator == concurrency = 0

\* An emitter is used either by the producer of a generator, read by a range
\* loop, or by a streaming task of a pool, read by callbackTaskResults.
EmitInit == GenInit \/ SubmitInit

EmitNext ==
    \/ UsesGenerator /\ (GenStart \/ GenCtxCancel \/ Producer \/ Consumer)
    \/ ~UsesGenerator /\ Start
    \/ ~UsesGenerator /\ \E w \in Workers : StreamingWorker(w)
    \/ ~UsesGenerator /\ \E c \in Submitters : StreamingCaller(c)

EmitSpec == EmitInit /\ [][EmitNext]_vars

\* The Emit calls of the generator's producer that returned nil.
GenEmitted == gNext - 1

\* C21: the number of Emit calls that returned nil less the number of values
\* the consumer has received is the number of values in the result channel,
\* so at most its capacity, for the generator and for a streaming task whose
\* values are handed to the callback as they are received; on a channel of
\* capacity 0 an Emit returns nil only in the step in which the consumer
\* receives its value.
BackPressure ==
    /\ [](/\ GenEmitted - Len(received) = Len(gResults)
          /\ Len(gResults) <= gCap
          /\ \A c \in Senders :
                 /\ emitted[c] - Len(cbLog[c]) = Len(tResults[c])
                 /\ cKind[c] = "Streaming" => Len(tResults[c]) <= rCap[c])
    /\ [][/\ (gCap = 0 /\ gNext' # gNext) => received' = Append(received, gNext)
          /\ \A c \in Senders :
                 (rCap[c] = 0 /\ emitted'[c] # emitted[c]) =>
                     cbLog'[c] = Append(cbLog[c], emitted'[c])]_vars

\* A streaming task with a result channel of capacity 1 is blocked in its
\* second Emit: the first value is in the channel and the callback has not
\* been called yet.
BackPressureWitness ==
    \E c \in Submitters, w \in Workers :
        /\ wTask[w] = c
        /\ wPc[w] = "emitSel"
        /\ rCap[c] = 1
        /\ emitted[c] = 1
        /\ tResults[c] = <<1>>
        /\ cbLog[c] = <<>>
        /\ ~Cancelled(c)

\* The worker is about to call Emit for the next value of task c.
TaskEmitCall(w, c) ==
    wTask[w] = c /\ wPc[w] = "emitPre" /\ emitted[c] < nEmit[c]

\* The producer is about to call Emit for its next value.
GenEmitCall == gPc = "emitPre" /\ gNext <= gValues

\* C22: an Emit call made with a context that is already cancelled returns
\* the cancellation cause in its first step, whatever the state of the
\* result channel, and that step leaves the channel, the values received and
\* the count of successful Emit calls as they are; the task, or the
\* producer, returns that cause.
EmitAfterCancel ==
    /\ [](/\ gPre => gCtx /\ gRunRet = "cause"
          /\ \A c \in Senders : tPre[c] => Cancelled(c) /\ tErr[c] = "cause")
    /\ [][/\ (GenEmitCall /\ gCtx /\ gPc' # gPc) =>
                 /\ gPre'
                 /\ gPc' = "storeErr"
                 /\ gResults' = gResults
                 /\ received' = received
                 /\ gNext' = gNext
          /\ \A c \in Senders, w \in Workers :
                 (TaskEmitCall(w, c) /\ Cancelled(c) /\ wPc'[w] # wPc[w]) =>
                     /\ tPre'[c]
                     /\ wPc'[w] = "closeResults"
                     /\ tResults'[c] = tResults[c]
                     /\ cbLog'[c] = cbLog[c]
                     /\ emitted'[c] = emitted[c]]_vars

\* The task's second Emit was called with a cancelled context and returned
\* the cause although the channel, of capacity 1, was empty.
EmitAfterCancelWitness ==
    \E c \in Submitters :
        /\ tPre[c]
        /\ rCap[c] = 1
        /\ tResults[c] = <<>>
        /\ emitted[c] = 1
        /\ nEmit[c] = 2

\* ------------------------------------------------------------------------
\* Submitting to a closed pool or event loop
\* ------------------------------------------------------------------------
\* The pool is the event pool of an event loop.
IsEventLoop == resource = "snapshotPtr"

\* A caller of pool.Submit.
PoolSubmit(c) ==
    \/ PoolSubmitPrecheck(c)
    \/ SubmitCancelled(c)
    \/ SubmitEnqueue(c)
    \/ SubmitPanic(c)

\* An event loop with callers of Send, or a worker pool with goroutines that
\* send on Requests() or call pool.Submit; Close is called at any time.
ClosedInit == Init \/ PoolInit

ClosedNext ==
    \/ Start
    \/ IsEventLoop /\ Close
    \/ IsEventLoop /\ \E w \in Workers : Worker(w)
    \/ IsEventLoop /\ \E c \in Senders : Send(c)
    \/ ~IsEventLoop /\ PoolClose
    \/ ~IsEventLoop /\ \E w \in Workers :
                           WorkerRecv(w) \/ WorkerExit(w) \/ ExecuteValueless(w)
    \/ ~IsEventLoop /\ \E c \in Senders :
                           RequestsSend(c) \/ RequestsPanic(c) \/ PoolSubmit(c)
    \/ \E c \in Senders : CtxCancel(c)

ClosedSpec == ClosedInit /\ [][ClosedNext]_vars

\* Caller c is in a call that has not yet sent its task or event.
Submitting(c) == cPc[c] \in {"idle", "lockWait", "select", "submitSel"}

\* Event c was dispatched.
Dispatched(c) == \E i \in DOMAIN dispatchLog : dispatchLog[i][1] = c

\* C23: once the request queue is closed, a caller whose context is not
\* cancelled and that has not yet sent its task or event ends in a panic
\* only: it does not return; nothing enters the queue or reaches a worker but
\* from the queue; the task or event of a panicked call is never in the pool
\* and never executed; and the panic of Send leaves the generation counter
\* as it was and the lock free.
NoSubmitAfterClose ==
    /\ [](\A c \in Senders :
            cPc[c] = "panicked" =>
                /\ closed
                /\ ~InPool(c)
                /\ tExec[c] = 0
                /\ ~Dispatched(c)
                /\ cResult[c] = 0
                /\ cRet[c] = "none")
    /\ [][\A c \in Senders :
            /\ (closed /\ ~cCtx[c] /\ Submitting(c) /\ cPc'[c] # cPc[c]) =>
                   /\ Submitting(c)' \/ cPc'[c] = "panicked"
                   /\ ~InPool(c)'
            /\ (closed /\ ~InPool(c)) => ~InPool(c)'
            /\ (cPc[c] # "panicked" /\ cPc'[c] = "panicked") =>
                   /\ generation' = generation
                   /\ IsEventLoop => lockChannel' = NewChannelLock]_vars

\* Send panicked on a closed loop that had accepted another event: the lock
\* is free again and the generation counts the accepted event only.
NoSubmitAfterCloseWitness ==
    \E c \in Senders :
        /\ IsEventLoop
        /\ cPc[c] = "panicked"
        /\ ~cCtx[c]
        /\ closePc = "returned"
        /\ generation = 1
        /\ lockChannel = NewChannelLock

\* ------------------------------------------------------------------------
\* Start and Close called by several goroutines
\* ------------------------------------------------------------------------
\* Mutant of PoolStart: the workers are launched whether or not the pool was
\* started.
PoolStartNoSwap(g) ==
    /\ sPc[g] = "idle"
    /\ started' = TRUE
    /\ wPc' = [w \in Workers |->
                 IF w <= concurrency /\ wPc[w] = "none" THEN "recv" ELSE wPc[w]]
    /\ launched' = launched + concurrency
    /\ sPc' = [sPc EXCEPT ![g] = "started"]
    /\ UNCHANGED <<mapVars, emitVars, drainVars, retVars, kPc, closeCount, waitVars, watchVars, genVars, lockerVars,
                   concurrency, resource, bufferCap, requests, closed, wg, wTask,
                   closeVars, loopVars, callVars, taskVars>>

\* pool.Start called by goroutine g: p.started.Swap(true) and a panic when it
\* was set, else one worker goroutine per unit of concurrency.
PoolStart(g) ==
    /\ sPc[g] = "idle"
    /\ IF started
       THEN /\ sPc' = [sPc EXCEPT ![g] = "panicked"]
            /\ UNCHANGED <<started, wPc, launched>>
       ELSE /\ started' = TRUE
            /\ wPc' = [w \in Workers |-> IF w <= concurrency THEN "recv" ELSE "none"]
            /\ launched' = launched + concurrency
            /\ sPc' = [sPc EXCEPT ![g] = "started"]
    /\ UNCHANGED <<mapVars, emitVars, drainVars, retVars, kPc, closeCount, waitVars, watchVars, genVars, lockerVars,
                   concurrency, resource, bufferCap, requests, closed, wg, wTask,
                   closeVars, loopVars, callVars, taskVars>>

\* generator.Start called by goroutine g: gen.started.Swap(true) and a panic
\* when it was set, else go gen.startInner(ctx, h).
GenStartCall(g) ==
    /\ sPc[g] = "idle"
    /\ IF gStarted
       THEN /\ sPc' = [sPc EXCEPT ![g] = "panicked"]
            /\ UNCHANGED <<gStarted, gPc, launched>>
       ELSE /\ gStarted' = TRUE
            /\ gPc' = "emitPre"
            /\ launched' = launched + 1
            /\ sPc' = [sPc EXCEPT ![g] = "started"]
    /\ UNCHANGED <<mapVars, emitVars, drainVars, retVars, kPc, closeCount, nonGenVars, genAux, gCap, gResults, gResClosed,
                   gDone, gErr, gCtx, gValues, gNext, rPc, received, waitRet>>

\* Mutant of PoolCloseOnce: close(p.requests) without the sync.Once; closing a
\* closed channel panics.
PoolCloseTwice(k) ==
    /\ kPc[k] = "idle"
    /\ IF closed
       THEN /\ kPc' = [kPc EXCEPT ![k] = "panicked"]
            /\ UNCHANGED <<closed, closeCount>>
       ELSE /\ closed' = TRUE
            /\ closeCount' = closeCount + 1
            /\ kPc' = [kPc EXCEPT ![k] = "load"]
    /\ UNCHANGED <<mapVars, emitVars, drainVars, retVars, sPc, launched, waitVars, watchVars, genVars, lockerVars,
                   concurrency, resource, bufferCap, requests, started, wg, wPc, wTask,
                   closeVars, loopVars, callVars, taskVars>>

\* pool.Close called by goroutine k: p.closeOnce.Do(p.closeRequests); the
\* first call closes the channel, a later one finds the Once done.
PoolCloseOnce(k) ==
    /\ kPc[k] = "idle"
    /\ IF closeCount > 0
       THEN UNCHANGED <<closed, closeCount>>
       ELSE /\ closed' = TRUE
            /\ closeCount' = closeCount + 1
    /\ kPc' = [kPc EXCEPT ![k] = "load"]
    /\ UNCHANGED <<mapVars, emitVars, drainVars, retVars, sPc, launched, waitVars, watchVars, genVars, lockerVars,
                   concurrency, resource, bufferCap, requests, started, wg, wPc, wTask,
                   closeVars, loopVars, callVars, taskVars>>

\* pool.Close: if !p.started.Load() { return }
PoolCloseLoad(k) ==
    /\ kPc[k] = "load"
    /\ kPc' = [kPc EXCEPT ![k] = IF started THEN "wait" ELSE "returned"]
    /\ UNCHANGED <<mapVars, emitVars, drainVars, retVars, sPc, launched, closeCount, waitVars, watchVars, genVars, lockerVars,
                   poolVars, closeVars, loopVars, callVars, taskVars>>

\* pool.Close: p.wg.Wait() returns once the counter is zero
PoolCloseWait(k) ==
    /\ kPc[k] = "wait"
    /\ wg = 0
    /\ kPc' = [kPc EXCEPT ![k] = "returned"]
    /\ UNCHANGED <<mapVars, emitVars, drainVars, retVars, sPc, launched, closeCount, waitVars, watchVars, genVars, lockerVars,
                   poolVars, closeVars, loopVars, callVars, taskVars>>

\* Goroutine k calls pool.Close once more.
PoolCloseAgain(k) ==
    /\ kPc[k] = "returned"
    /\ kPc' = [kPc EXCEPT ![k] = "idle"]
    /\ UNCHANGED <<mapVars, emitVars, drainVars, retVars, sPc, launched, closeCount, waitVars, watchVars, genVars, lockerVars,
                   poolVars, closeVars, loopVars, callVars, taskVars>>

PoolCloseCall(k) ==
    \/ PoolCloseOnce(k)
    \/ PoolCloseLoad(k)
    \/ PoolCloseWait(k)
    \/ PoolCloseAgain(k)

\* A pool, or a generator, whose Start and Close are called by several
\* goroutines at any time.
LifecycleInit == PoolInit \/ GenInit

LifecycleNext ==
    \/ ~UsesGenerator /\ \E g \in Starters : PoolStart(g)
    \/ ~UsesGenerator /\ \E k \in Closers : PoolCloseCall(k)
    \/ ~UsesGenerator /\ \E w \in Workers :
                             WorkerRecv(w) \/ WorkerExit(w) \/ ExecuteValueless(w)
    \/ ~UsesGenerator /\ \E c \in Senders : RequestsSend(c) \/ RequestsPanic(c)
    \/ UsesGenerator /\ \E g \in Starters : GenStartCall(g)
    \/ UsesGenerator /\ (GenCtxCancel \/ Producer \/ Consumer)

LifecycleSpec == LifecycleInit /\ [][LifecycleNext]_vars

\* C24: however many goroutines call pool.Close, and however often, the
\* request channel is closed once and no call panics; a call on a pool that
\* was not started returns at once, the wait group still charged; a call on a
\* started pool waits, and returns only when every worker has exited.
CloseIdempotent ==
    /\ [](/\ closeCount <= 1
          /\ \A k \in Closers :
                /\ kPc[k] # "panicked"
                /\ kPc[k] \in {"load", "wait", "returned"} =>
                       closed /\ closeCount = 1)
    /\ [][\A k \in Closers :
            /\ (kPc[k] = "load" /\ kPc'[k] # "load") =>
                   IF started
                   THEN kPc'[k] = "wait"
                   ELSE kPc'[k] = "returned" /\ wg = concurrency
            /\ (kPc[k] = "wait" /\ kPc'[k] # "wait") =>
                   /\ kPc'[k] = "returned"
                   /\ wg = 0
                   /\ \A w \in 1 .. concurrency : wPc[w] = "exited"
            /\ (kPc[k] # "returned" /\ kPc'[k] = "returned") =>
                   kPc[k] \in {"load", "wait"}]_vars

\* Two goroutines are in Close together on a started pool whose workers
\* have not all exited: the channel was closed once and both wait.
CloseIdempotentWitness ==
    /\ ~UsesGenerator
    /\ started
    /\ wg > 0
    /\ closeCount = 1
    /\ \A k \in {1, 2} : kPc[k] = "wait"

\* The goroutines whose Start call went through.
StartedBy == {g \in Starters : sPc[g] = "started"}

\* The pool or generator is started.
IsStarted == IF UsesGenerator THEN gStarted ELSE started

\* The goroutines one Start launches.
LaunchedByStart == IF UsesGenerator THEN 1 ELSE concurrency

\* C25: of the Start calls made on a pool or on a generator, the first
\* launches the workers or the producer and every other panics and launches
\* nothing, also when the calls race.
StartOnce ==
    /\ [](/\ Cardinality(StartedBy) <= 1
          /\ IsStarted <=> StartedBy # {}
          /\ launched = IF IsStarted THEN LaunchedByStart ELSE 0
          /\ gPc # "none" => gStarted
          /\ \A w \in Workers : wPc[w] # "none" => started /\ w <= concurrency)
    /\ [][\A g \in Starters :
            (sPc[g] = "idle" /\ sPc'[g] # "idle") =>
                IF IsStarted
                THEN /\ sPc'[g] = "panicked"
                     /\ UNCHANGED <<launched, wPc, gPc, started, gStarted>>
                ELSE /\ sPc'[g] = "started"
                     /\ IsStarted'
                     /\ launched' = LaunchedByStart]_vars

\* Two goroutines called Start of a pool of two workers: one call went
\* through and the other panicked, with two workers launched.
StartOnceWitness ==
    /\ ~UsesGenerator
    /\ concurrency = 2
    /\ launched = 2
    /\ \E g, h \in Starters : sPc[g] = "started" /\ sPc[h] = "panicked"

\* ------------------------------------------------------------------------
\* Single-value tasks
\* ------------------------------------------------------------------------
SingleWorker(w) ==
    \/ WorkerRecv(w)
    \/ ExecuteTask(w)
    \/ ExecutePublish(w)
    \/ ExecuteClose(w)

SingleCaller(c) ==
    \/ SubmitPrecheck(c)
    \/ SubmitFuncCall(c)
    \/ SubmitCancelled(c)
    \/ SubmitEnqueue(c)
    \/ AwaitCancelled(c)
    \/ AwaitResult(c)
    \/ Drain(c)
    \/ CtxCancel(c)

\* Single-value tasks are submitted through Submit and SubmitFunc to a pool
\* that stays open.
SingleNext ==
    \/ Start
    \/ \E w \in Workers : SingleWorker(w)
    \/ \E c \in Submitters : SingleCaller(c)

SingleSpec == SubmitInit /\ [][SingleNext]_vars

\* The call of c wraps a single-value task.
SingleValue(c) == cKind[c] \in {"Submit", "SubmitFunc"}

\* The worker that runs the task of c is at the given position.
RunningAt(c, pc) == \E w \in Workers : wTask[w] = c /\ wPc[w] = pc

\* C26: the wrapper of a single-value task writes one value to its result
\* channel of capacity 1 and then closes it, whether or not the task returned
\* an error, and the error is in the shared slot before the value is written;
\* Submit with a context that is not cancelled returns the value and nil for
\* a task without error, and the zero value and the task's error otherwise.
SingleValueProtocol ==
    /\ [](\A c \in Submitters : SingleValue(c) =>
            /\ rCap[c] = ResultBuffer
            /\ Len(tResults[c]) <= 1
            /\ (tResults[c] # <<>> \/ tResClosed[c] \/ RunningAt(c, "publish")) =>
                   /\ tExec[c] = 1
                   /\ tRunRet[c] \in TaskErrors
                   /\ tErr[c] = tRunRet[c]
            /\ (cPc[c] = "returned" /\ ~cCtx[c]) =>
                   /\ tRunRet[c] \in TaskErrors
                   /\ cRet[c] = tRunRet[c]
                   /\ cValue[c] = IF tRunRet[c] = "nil" THEN 1 ELSE 0)
    /\ [][\A c \in Submitters : SingleValue(c) =>
            /\ tResults'[c] # tResults[c] =>
                   \/ /\ RunningAt(c, "publish")
                      /\ ~tResClosed[c]
                      /\ tResults[c] = <<>>
                      /\ tResults'[c] = <<1>>
                      /\ RunningAt(c, "closeResults")'
                   \/ /\ tResults[c] = <<1>>
                      /\ tResults'[c] = <<>>
                      /\ cPc[c] \in {"await", "drain"}
            /\ (RunningAt(c, "publish") /\ ~RunningAt(c, "publish")') =>
                   tResults'[c] = <<1>>
            /\ (~tResClosed[c] /\ tResClosed'[c]) =>
                   /\ RunningAt(c, "closeResults")
                   /\ tResults[c] = <<1>> \/ cPc[c] \in {"drain", "returned"}
            /\ tResClosed[c] => tResClosed'[c] /\ Len(tResults'[c]) <= Len(tResults[c])]_vars

\* Submit returned for a task that failed: the zero value and the task's
\* error, with the result channel closed.
SingleValueProtocolWitness ==
    \E c \in Submitters :
        /\ cKind[c] = "Submit"
        /\ cPc[c] = "returned"
        /\ ~cCtx[c]
        /\ tRunRet[c] = "taskErr"
        /\ cRet[c] = "taskErr"
        /\ cValue[c] = 0
        /\ tResClosed[c]

\* The context of c was cancelled after its task was sent and before a
\* result was received.
Abandoned(c) ==
    /\ SingleValue(c)
    /\ cPc[c] = "await"
    /\ cCtx[c]
    /\ ~cAtSend[c]

\* C27: when the context is cancelled after the single-value task was
\* enqueued and before its result is received, Submit returns the
\* cancellation cause; the task is executed once at most, and the worker
\* that publishes its result finds room in the result channel.
AbandonedSubmit ==
    /\ [](\A c \in Submitters : SingleValue(c) =>
            /\ tExec[c] <= 1
            /\ RunningAt(c, "publish") => Len(tResults[c]) < rCap[c])
    /\ [][\A c \in Submitters :
            (Abandoned(c) /\ cPc'[c] # cPc[c]) =>
                cPc'[c] = "returned" /\ cRet'[c] = "cause"]_vars

\* ------------------------------------------------------------------------
\* TaskResult.Drain called by several goroutines
\* ------------------------------------------------------------------------
\* The call of c has wrapped its task: a TaskResult exists.
Wrapped(c) == cKind[c] \in {"Submit", "Streaming"} /\ cPc[c] # "idle"

\* taskResult.Drain is called by goroutine d on the TaskResult of some call.
DrainCall(d) ==
    /\ dPc[d] = "idle"
    /\ \E c \in Submitters :
          /\ Wrapped(c)
          /\ dTask' = [dTask EXCEPT ![d] = c]
    /\ dPc' = [dPc EXCEPT ![d] = "range"]
    /\ UNCHANGED <<mapVars, emitVars, drained, retVars, lifeVars, waitVars, watchVars, genVars, lockerVars, poolVars,
                   closeVars, loopVars, callVars, taskVars>>

\* taskResult.Drain: for range tr.results {} receives a buffered value.
DrainReceive(d) ==
    /\ dPc[d] = "range"
    /\ tResults[dTask[d]] # <<>>
    /\ tResults' = [tResults EXCEPT ![dTask[d]] = Tail(@)]
    /\ UNCHANGED <<mapVars, emitVars, drainVars, retVars, lifeVars, waitVars, watchVars, genVars, lockerVars, poolVars,
                   closeVars, loopVars, callVars, cKind, cRet, childCtx, cbLog, rCap, tResClosed, tErr, tExec, nEmit, emitted>>

\* taskResult.Drain: for range tr.results {} receives at once the value Emit
\* sends on a channel without room.
DrainHandoff(d) ==
    /\ dPc[d] = "range"
    /\ \E w \in Workers :
          /\ wTask[w] = dTask[d]
          /\ wPc[w] = "emitSel"
          /\ tResults[wTask[w]] = <<>>
          /\ rCap[wTask[w]] = 0
          /\ wPc' = [wPc EXCEPT ![w] = "emitPre"]
    /\ emitted' = [emitted EXCEPT ![dTask[d]] = @ + 1]
    /\ UNCHANGED <<mapVars, emitVars, drainVars, retVars, lifeVars, waitVars, watchVars, genVars, lockerVars,
                   concurrency, resource, bufferCap, requests, closed, started, wg, wTask,
                   closeVars, loopVars, callVars, cKind, cRet, childCtx, cbLog, rCap,
                   tResults, tResClosed, tErr, tExec, nEmit>>

\* Mutant of DrainReturn: Drain returns *tr.err when no value is buffered,
\* whether or not the channel is closed.
DrainEarly(d) ==
    /\ dPc[d] = "range"
    /\ tResults[dTask[d]] = <<>>
    /\ drained' = [drained EXCEPT ![dTask[d]] = @ \cup {tErr[dTask[d]]}]
    /\ dPc' = [dPc EXCEPT ![d] = "returned"]
    /\ UNCHANGED <<mapVars, emitVars, dTask, retVars, lifeVars, waitVars, watchVars, genVars, lockerVars, poolVars,
                   closeVars, loopVars, callVars, taskVars>>

\* taskResult.Drain: the range loop ends on the closed and empty channel and
\* *tr.err is returned.
DrainReturn(d) ==
    /\ dPc[d] = "range"
    /\ tResults[dTask[d]] = <<>>
    /\ tResClosed[dTask[d]]
    /\ drained' = [drained EXCEPT ![dTask[d]] = @ \cup {tErr[dTask[d]]}]
    /\ dPc' = [dPc EXCEPT ![d] = "returned"]
    /\ UNCHANGED <<mapVars, emitVars, dTask, retVars, lifeVars, waitVars, watchVars, genVars, lockerVars, poolVars,
                   closeVars, loopVars, callVars, taskVars>>

\* Goroutine d is free to call Drain once more.
DrainAgain(d) ==
    /\ dPc[d] = "returned"
    /\ dPc' = [dPc EXCEPT ![d] = "idle"]
    /\ dTask' = [dTask EXCEPT ![d] = 0]
    /\ UNCHANGED <<mapVars, emitVars, drained, retVars, lifeVars, waitVars, watchVars, genVars, lockerVars, poolVars,
                   closeVars, loopVars, callVars, taskVars>>

Drainer(d) ==
    \/ DrainCall(d)
    \/ DrainReceive(d)
    \/ DrainHandoff(d)
    \/ DrainReturn(d)
    \/ DrainAgain(d)

DrainWorker(w) ==
    \/ WorkerRecv(w)
    \/ ExecuteTask(w)
    \/ ExecutePublish(w)
    \/ ExecuteClose(w)
    \/ ExecuteStreaming(w)
    \/ StreamingReturn(w)
    \/ EmitPrecheck(w)
    \/ EmitSend(w)

\* A task is wrapped and sent to the pool as a helper does, with a context
\* that is not cancelled; the results are received by the goroutines that call
\* Drain.
DrainCaller(c) ==
    \/ SubmitPrecheck(c)
    \/ StreamingPrecheck(c)
    \/ SubmitEnqueue(c)

DrainNext ==
    \/ Start
    \/ \E w \in Workers : DrainWorker(w)
    \/ \E c \in Submitters : DrainCaller(c)
    \/ \E d \in Drainers : Drainer(d)

DrainSpec == SubmitInit /\ [][DrainNext]_vars

\* C28: every Drain call on a TaskResult returns the error the task ended
\* with, so all calls return the same; once a call has returned the channel
\* is closed and empty for good, so that a later call finds its loop over;
\* the error slot is written before the channel is closed and not after.
DrainIdempotent ==
    /\ [](\A c \in Submitters :
            /\ Cardinality(drained[c]) <= 1
            /\ drained[c] # {} =>
                   /\ tResClosed[c]
                   /\ tResults[c] = <<>>
                   /\ drained[c] = {tErr[c]}
            /\ tResClosed[c] =>
                   /\ tRunRet[c] # "none"
                   /\ tErr[c] = tRunRet[c])
    /\ [][\A c \in Submitters :
            /\ tResClosed[c] =>
                   /\ tResClosed'[c]
                   /\ tErr'[c] = tErr[c]
                   /\ Len(tResults'[c]) <= Len(tResults[c])
            /\ \A d \in Drainers :
                   (dPc[d] = "idle" /\ dPc'[d] = "range" /\ drained[dTask'[d]] # {}) =>
                       /\ tResults[dTask'[d]] = <<>>
                       /\ tResClosed[dTask'[d]]]_vars

\* Every goroutine has called Drain on the result of a streaming task that
\* failed after it emitted a value, and each call returned the task's error.
DrainIdempotentWitness ==
    \E c \in Submitters :
        /\ cKind[c] = "Streaming"
        /\ emitted[c] >= 1
        /\ tRunRet[c] = "taskErr"
        /\ drained[c] = {"taskErr"}
        /\ \A d \in Drainers : dPc[d] = "returned" /\ dTask[d] = c

\* ------------------------------------------------------------------------
\* Streaming tasks and their callback
\* ------------------------------------------------------------------------
\* Streaming tasks are submitted through SubmitStreamingBuffered to a pool
\* that stays open.
StreamNext ==
    \/ Start
    \/ \E w \in Workers : StreamingWorker(w)
    \/ \E c \in Submitters : StreamingCaller(c)

StreamSpec == SubmitInit /\ [][StreamNext]_vars

\* What SubmitStreamingCollectAll returns for the SubmitStreaming call of c,
\* whose callback appends each value to the results: the results and a nil
\* error, or nil results and the error.
SubmitStreamingCollectAll(c) ==
    IF cRet[c] = "nil"
    THEN [results |-> cbLog[c], err |-> "nil"]
    ELSE [results |-> <<>>, err |-> cRet[c]]

\* The values v1 .. vn a streaming task emits.
EmittedValues(n) == [i \in 1 .. n |-> i]

\* No call of the callback of c returned an error or Stop.
CallbackNil(c) == cbLast[c] \in {"none", "nil"}

\* C29: the callback is called on the submitter's side, once for each value
\* and in the order of emission; when the context is not cancelled, every
\* callback returns nil and the task returns nil after its n values,
\* SubmitStreamingBuffered returns nil after n callbacks, and
\* SubmitStreamingCollectAll returns the n values and nil.
StreamingRoundTrip ==
    /\ [](\A c \in Submitters : cKind[c] = "Streaming" =>
            /\ Len(cbLog[c]) <= emitted[c]
            /\ emitted[c] <= nEmit[c]
            /\ cbLog[c] = EmittedValues(Len(cbLog[c]))
            /\ (cPc[c] = "returned" /\ ~cCtx[c] /\ CallbackNil(c)) =>
                   /\ tRunRet[c] \in TaskErrors
                   /\ cRet[c] = tRunRet[c]
                   /\ cbLog[c] = EmittedValues(nEmit[c])
                   /\ tRunRet[c] = "nil" =>
                          SubmitStreamingCollectAll(c) =
                              [results |-> EmittedValues(nEmit[c]), err |-> "nil"])
    /\ [][\A c \in Submitters :
            cbLog'[c] # cbLog[c] =>
                /\ cPc[c] = "loop"
                /\ cbLog'[c] = Append(cbLog[c], Len(cbLog[c]) + 1)]_vars

\* SubmitStreaming, with its buffer of one value, returned nil after the
\* callback was called with both values of the task, in order.
StreamingRoundTripWitness ==
    \E c \in Submitters :
        /\ cKind[c] = "Streaming"
        /\ cPc[c] = "returned"
        /\ ~cCtx[c]
        /\ CallbackNil(c)
        /\ rCap[c] = 1
        /\ nEmit[c] = 2
        /\ tRunRet[c] = "nil"
        /\ cRet[c] = "nil"
        /\ cbLog[c] = <<1, 2>>

\* C30: when the callback returns Stop the call returns nil with the derived
\* context cancelled, and the callback is not called again, whatever the
\* task has yet to emit or has emitted into the buffer.
StopSentinel ==
    /\ [](\A c \in Submitters :
            /\ cRet[c] # "stop"
            /\ cbLast[c] = "stop" =>
                   /\ cPc[c] = "returned"
                   /\ cRet[c] = "nil"
                   /\ childCtx[c]
                   /\ Len(cbLog[c]) >= 1)
    /\ [][\A c \in Submitters :
            /\ cbLast[c] = "stop" =>
                   /\ cbLog'[c] = cbLog[c]
                   /\ cbLast'[c] = "stop"
                   /\ cPc'[c] = "returned"
                   /\ cRet'[c] = "nil"
            /\ (cbLast[c] # "stop" /\ cbLast'[c] = "stop") =>
                   Len(cbLog'[c]) = Len(cbLog[c]) + 1]_vars

\* The callback returned Stop at its first call, with the second value of
\* the task already in the buffer: the call returned nil after one callback.
StopSentinelWitness ==
    \E c \in Submitters :
        /\ cbLast[c] = "stop"
        /\ cPc[c] = "returned"
        /\ cRet[c] = "nil"
        /\ ~cCtx[c]
        /\ cbLog[c] = <<1>>
        /\ nEmit[c] = 2
        /\ tResults[c] = <<2>>

\* C31: a callback error other than Stop is what SubmitStreamingBuffered
\* returns, whatever the task returns and whenever it returns it; when the
\* context is not cancelled and no callback fails, the task's error is
\* returned; SubmitStreamingCollectAll returns no results with an error.
StreamingErrorPrecedence ==
    /\ [](\A c \in Submitters : cKind[c] = "Streaming" =>
            /\ cbLast[c] = "cbErr" =>
                   /\ cPc[c] = "returned"
                   /\ cRet[c] = "cbErr"
            /\ (cPc[c] = "returned" /\ ~cCtx[c] /\ CallbackNil(c)) =>
                   /\ tRunRet[c] \in TaskErrors
                   /\ cRet[c] = tRunRet[c]
            /\ (cPc[c] = "returned" /\ SubmitStreamingCollectAll(c).err # "nil") =>
                   SubmitStreamingCollectAll(c).results = <<>>)
    /\ [][\A c \in Submitters :
            cbLast[c] = "cbErr" => (cbLast'[c] = "cbErr" /\ cRet'[c] = "cbErr")]_vars

\* The callback failed on the last value of a task that had already failed
\* itself: the call returned the callback's error.
StreamingErrorPrecedenceWitness ==
    \E c \in Submitters :
        /\ cKind[c] = "Streaming"
        /\ cPc[c] = "returned"
        /\ cbLast[c] = "cbErr"
        /\ tRunRet[c] = "taskErr"
        /\ tErr[c] = "taskErr"
        /\ cRet[c] = "cbErr"
        /\ cbLog[c] = EmittedValues(nEmit[c])

\* C32: when SubmitStreamingBuffered has returned after its task was sent to
\* the pool, the task has finished executing and its result channel is
\* closed: no worker holds the task and the task is not left in the queue.
DrainedBeforeReturn ==
    \A c \in Submitters :
        (/\ cKind[c] = "Streaming"
         /\ cPc[c] = "returned"
         /\ InPool(c) \/ tExec[c] > 0)
        => /\ tResClosed[c]
           /\ ~InPool(c)

\* A caller of SubmitStreamingBuffered whose own context is never cancelled.
ChildCaller(c) ==
    \/ StreamingPrecheck(c)
    \/ SubmitEnqueue(c)
    \/ LoopReceive(c)
    \/ LoopClosed(c)

ChildNext ==
    \/ Start
    \/ \E w \in Workers : StreamingWorker(w)
    \/ \E c \in Submitters : ChildCaller(c)

ChildSpec == SubmitInit /\ [][ChildNext]_vars

\* The worker goroutines of the pool are scheduled: a step of a worker that
\* stays possible is taken.
ChildFairSpec == ChildSpec /\ \A w \in Workers : WF_vars(StreamingWorker(w))

\* The Emit call of the task held by worker w is blocked: it is in its select
\* and the result channel has no room.
EmitPending(w) ==
    /\ wTask[w] # 0
    /\ wPc[w] = "emitSel"
    /\ Len(tResults[wTask[w]]) = rCap[wTask[w]]

MapKeys == {"a"}

\* A map or slice value: what is under each key, 0 for a key the map does
\* not have.
MapValues == [MapKeys -> 0 .. MaxMapValue]

\* Everything but the maps and their snapshots.
nonMapVars == <<poolVars, closeVars, loopVars, callVars, taskVars, genVars,
                lockerVars, waitVars, watchVars, emitVars, lifeVars, retVars,
                drainVars>>

\* CopyMap and CopySlice: a new map with every entry of m.
CopyMap(m) == [k \in DOMAIN m |-> m[k]]

\* make / a literal: the user allocates a map of its own.
MakeMap(m) ==
    /\ Len(heap) < MaxObjects
    /\ heap' = Append(heap, m)
    /\ refs' = refs \cup {Len(heap) + 1}
    /\ UNCHANGED <<snaps, nonMapVars>>

\* The user changes, adds or deletes an entry of a map it holds.
Mutate(a, k, v) ==
    /\ a \in refs
    /\ heap[a][k] # v
    /\ heap' = [heap EXCEPT ![a][k] = v]
    /\ UNCHANGED <<refs, snaps, nonMapVars>>

\* NewMap(initialState), NewSlice(initialState): the snapshot of generation 0
\* keeps a copy of the map at address a. prev and made are history: the
\* receiver of the Next call that made the snapshot, and the state given.
NewMap(a) ==
    /\ a \in refs
    /\ Len(heap) < MaxObjects
    /\ Len(snaps) < MaxSnapshots
    /\ heap' = Append(heap, CopyMap(heap[a]))
    /\ snaps' = Append(snaps, [gen |-> 0, state |-> Len(heap) + 1,
                               expired |-> FALSE, prev |-> 0, made |-> heap[a]])
    /\ UNCHANGED <<refs, nonMapVars>>

\* Mutant of MapState: State returns the map the snapshot keeps.
MapStateShared(i) ==
    /\ i \in 1 .. Len(snaps)
    /\ snaps[i].state \notin refs
    /\ refs' = refs \cup {snaps[i].state}
    /\ UNCHANGED <<heap, snaps, nonMapVars>>

\* mapSnapshot.State, sliceSnapshot.State: a copy of the state is returned.
MapState(i) ==
    /\ i \in 1 .. Len(snaps)
    /\ Len(heap) < MaxObjects
    /\ heap' = Append(heap, CopyMap(heap[snaps[i].state]))
    /\ refs' = refs \cup {Len(heap) + 1}
    /\ UNCHANGED <<snaps, nonMapVars>>

\* mapSnapshot.Next(state), sliceSnapshot.Next(state) with abstract.Next: a
\* new snapshot with the generation incremented, a new expiration channel and
\* a copy of the map at address a.
MapNext(i, a) ==
    /\ i \in 1 .. Len(snaps)
    /\ a \in refs
    /\ Len(heap) < MaxObjects
    /\ Len(snaps) < MaxSnapshots
    /\ heap' = Append(heap, CopyMap(heap[a]))
    /\ snaps' = Append(snaps, [gen |-> snaps[i].gen + 1, state |-> Len(heap) + 1,
                               expired |-> FALSE, prev |-> i, made |-> heap[a]])
    /\ UNCHANGED <<refs, nonMapVars>>

\* abstract.Expire: the expiration channel of the snapshot is closed, once.
MapExpire(i) ==
    /\ i \in 1 .. Len(snaps)
    /\ ~snaps[i].expired
    /\ snaps' = [snaps EXCEPT ![i].expired = TRUE]
    /\ UNCHANGED <<heap, refs, nonMapVars>>

\* No pool, generator or lock is in use, and no map has been made.
MapInit ==
    /\ NoPool
    /\ NoGenerator
    /\ NoLockers

\* The user of the snapshots: it makes maps, changes those it holds, and
\* calls the constructor, State, Next and Expire.
SnapshotUser ==
    \/ \E m \in MapValues : MakeMap(m)
    \/ \E a \in 1 .. Len(heap), k \in MapKeys, v \in 0 .. MaxMapValue : Mutate(a, k, v)
    \/ \E a \in 1 .. Len(heap) : NewMap(a)
    \/ \E i \in 1 .. Len(snaps) : MapState(i)
    \/ \E i \in 1 .. Len(snaps), a \in 1 .. Len(heap) : MapNext(i, a)
    \/ \E i \in 1 .. Len(snaps) : MapExpire(i)

MapSpec == MapInit /\ [][SnapshotUser]_vars

\* C36: what State() of a snapshot returns is at all times the state the
\* snapshot was made with, whatever the user does to the maps it passed in or
\* got back, and the maps kept by two snapshots are never the same object; no
\* step changes the generation or the kept state of a snapshot; Next and the
\* constructor leave every existing snapshot as it is, expiration included,
\* and the snapshot Next returns is unexpired with the receiver's generation
\* plus one.
SnapshotCopyDiscipline ==
    /\ [](\A i \in 1 .. Len(snaps) :
            /\ CopyMap(heap[snaps[i].state]) = snaps[i].made
            /\ snaps[i].state \notin refs
            /\ \A j \in 1 .. Len(snaps) : snaps[j].state = snaps[i].state => j = i)
    /\ [][\A i \in 1 .. Len(snaps) :
            /\ snaps'[i].gen = snaps[i].gen
            /\ snaps'[i].state = snaps[i].state
            /\ heap'[snaps[i].state] = heap[snaps[i].state]]_vars
    /\ [][Len(snaps') > Len(snaps) =>
            /\ \A i \in 1 .. Len(snaps) : snaps'[i] = snaps[i]
            /\ ~snaps'[Len(snaps')].expired
            /\ snaps'[Len(snaps')].gen =
                   IF snaps'[Len(snaps')].prev = 0 THEN 0
                   ELSE snaps[snaps'[Len(snaps')].prev].gen + 1]_vars

\* As in TestNextMap: a snapshot was made by Next from a state that differs
\* from the receiver's; the receiver has expired since; every map the user
\* holds has been changed since and differs from both, and State() of each
\* still returns what it was made with.
SnapshotCopyDisciplineWitness ==
    \E i, j \in 1 .. Len(snaps) :
        /\ snaps[j].prev = i
        /\ snaps[j].gen = 1
        /\ snaps[i].gen = 0
        /\ snaps[i].expired
        /\ ~snaps[j].expired
        /\ snaps[i].made # snaps[j].made
        /\ heap[snaps[i].state] = snaps[i].made
        /\ heap[snaps[j].state] = snaps[j].made
        /\ Cardinality(refs) >= 2
        /\ \A a \in refs : heap[a] \notin {snaps[i].made, snaps[j].made}

\* workpool.SubmitStreamingBuffered called with buffer 0, as in
\* TestSubmitStreamingCtxCancel2.
UnbufferedPrecheck(c) ==
    \E n \in 0 .. MaxEmit : Call(c, "Streaming", 0, n, TRUE)

\* A worker executing a streaming task whose result channel has no buffer:
\* every value is handed over.
UnbufferedWorker(w) ==
    \/ WorkerRecv(w)
    \/ ExecuteStreaming(w)
    \/ StreamingReturn(w)
    \/ EmitPrecheck(w)
    \/ EmitCancelled(w)
    \/ EmitHandoff(w)
    \/ ExecuteClose(w)

\* A caller of SubmitStreamingBuffered with buffer 0.
UnbufferedCaller(c) ==
    \/ UnbufferedPrecheck(c)
    \/ SubmitCancelled(c)
    \/ SubmitEnqueue(c)
    \/ LoopCancelled(c)
    \/ LoopClosed(c)
    \/ CtxCancel(c)

UnbufferedNext ==
    \/ Start
    \/ \E w \in Workers : UnbufferedWorker(w)
    \/ \E c \in Submitters : UnbufferedCaller(c)

UnbufferedSpec == SubmitInit /\ [][UnbufferedNext]_vars

\* The call of c is a SubmitStreamingBuffered with buffer 0 whose context was
\* cancelled after the call began and none of whose callbacks returned an
\* error.
CancelledUnbuffered(c) ==
    /\ cKind[c] = "Streaming"
    /\ rCap[c] = 0
    /\ cCtx[c]
    /\ ~cAtCall[c]
    /\ CallbackNil(c)

SendHolders == {c \in Senders : cPc[c] \in {"select", "inc"}}

\* C38: the token of the submission mutex and the Send calls holding it count
\* one, so the mutex is free whenever no Send holds it; a Send waiting for a
\* mutex that is held, or holding it in front of a full queue, can return
\* once its context is cancelled and then does nothing else; a Send fails
\* after its pre-check only with its context cancelled; and every step by
\* which a Send leaves its critical section, by success, cancellation or
\* panic, puts the token back.
SendReleasesMutex ==
    /\ [](/\ lockChannel + Cardinality(SendHolders) = 1
          /\ \A c \in Senders :
                /\ (cPc[c] = "failed") => cCtx[c]
                /\ (cPc[c] = "lockWait" /\ cCtx[c]) => ENABLED LockCancelled(c)
                /\ (cPc[c] = "select" /\ cCtx[c]) => ENABLED SendCancelled(c))
    /\ [][\A c \in Senders :
            (/\ cCtx[c]
             /\ cPc'[c] # cPc[c]
             /\ \/ cPc[c] = "lockWait" /\ ~TokenReady
                \/ cPc[c] = "select" /\ ~CanEnqueue /\ ~closed)
            => (cPc'[c] = "failed" /\ cResult'[c] = cResult[c])]_vars
    /\ [][\A c \in Senders :
            (c \in SendHolders /\ cPc'[c] \notin {"select", "inc"})
            => (lockChannel = 0 /\ lockChannel' = 1)]_vars

\* A Send whose context was cancelled after the call began has failed and
\* does not hold the mutex; the other Send holds it and waits in front of a
\* full queue with its own context cancelled.
SendReleasesMutexWitness ==
    \E c, d \in Senders :
        /\ cPc[c] = "failed"
        /\ ~cAtCall[c]
        /\ cPc[d] = "select"
        /\ cCtx[d]
        /\ ~CanEnqueue
        /\ ~closed
        /\ lockChannel = 0

\* The Send calls that have enqueued their event and not yet incremented the
\* generation counter.
AboutToReturn == {c \in Senders : cPc[c] = "inc"}

\* The events enqueued whose snapshot is not published yet: those in the
\* queue and the one the worker is executing before its Store.
Undispatched ==
    Len(requests)
    + Cardinality({w \in Workers : wTask[w] # 0 /\ wPc[w] \in {"exec", "dispatch", "store"}})

\* C39: the generation of the current snapshot is at most the generation
\* counter plus one, and at most the counter when no Send holds the mutex;
\* the counter, plus one for a Send that has enqueued and not yet counted,
\* less the snapshot's generation is the number of events enqueued and not
\* yet published, so with the mutex free the counter less the snapshot's
\* generation is that number; every generation published is one a Send has
\* returned or is about to return.
GenerationLeadsSnapshot ==
    /\ snapshotPtr.gen <= generation + 1
    /\ generation + Cardinality(AboutToReturn) - snapshotPtr.gen = Undispatched
    /\ SendHolders = {} =>
          /\ snapshotPtr.gen <= generation
          /\ generation - snapshotPtr.gen = Undispatched
    /\ \A i \in DOMAIN published :
          /\ published[i][2] >= 1
          /\ published[i][2] <= generation + Cardinality(AboutToReturn)
          /\ published[i][2] <= generation =>
                \E c \in Senders : cPc[c] = "ok" /\ cResult[c] = published[i][2]

\* The worker has published the snapshot of the second event while the Send
\* that enqueued it has not yet incremented the counter: the snapshot is one
\* generation ahead.
GenerationLeadsSnapshotWitness ==
    \E c \in Senders :
        /\ cPc[c] = "inc"
        /\ generation = 1
        /\ snapshotPtr.gen = generation + 1
        /\ Undispatched = 0

\* ------------------------------------------------------------------------
\* The order in which a pool takes its tasks
\* ------------------------------------------------------------------------
\* A pool whose request channel holds up to MaxQueue tasks, so that tasks
\* queue up behind each other.
FifoInit ==
    /\ concurrency \in 1 .. MaxWorkers
    /\ NewPoolBuffered(0 .. MaxQueue)
    /\ NoGenerator
    /\ NoLockers

FifoSpec == FifoInit /\ [][PoolNext]_vars

\* The workers that hold a task they received and have not finished.
Executing == {w \in Workers : wTask[w] # 0}

\* C40: at most concurrency workers exist and so at most concurrency tasks
\* are executing; a task is held by one worker at most, is not in the queue
\* while a worker holds it, and is executed once at most; a worker that
\* receives from a queue that is not empty takes the task at its head, and
\* the tasks behind it keep their order; with one worker, when a task begins
\* to execute every other task is already executed, or behind it in the
\* queue, or not enqueued.
PoolConcurrencyBound ==
    /\ [](/\ Cardinality(Executing) <= concurrency
          /\ \A w \in Workers : wPc[w] # "none" => w <= concurrency
          /\ \A w, x \in Executing : wTask[w] = wTask[x] => w = x
          /\ \A c \in Senders : tExec[c] <= 1
          /\ \A i \in 1 .. Len(requests) :
                /\ tExec[requests[i]] = 0
                /\ \A w \in Workers : wTask[w] # requests[i]
                /\ \A j \in 1 .. Len(requests) : requests[j] = requests[i] => j = i)
    /\ [][\A w \in Workers :
            (wTask[w] = 0 /\ wTask'[w] # 0) =>
                IF requests # <<>>
                THEN wTask'[w] = Head(requests) /\ requests' = Tail(requests)
                ELSE requests' = <<>>]_vars
    /\ [][\A i \in 1 .. Len(requests) :
            \/ i <= Len(requests') /\ requests'[i] = requests[i]
            \/ i > 1 /\ requests' = Tail(requests)
            \/ i = 1 /\ requests' = Tail(requests) /\ \E w \in Workers : wTask'[w] = requests[1]]_vars
    /\ [][\A w \in Workers :
            (concurrency = 1 /\ wTask[w] = 0 /\ wTask'[w] # 0) =>
                \A c \in Senders \ {wTask'[w]} :
                    \/ tExec[c] = 1
                    \/ cPc'[c] # "ok"
                    \/ \E i \in 1 .. Len(requests') : requests'[i] = c]_vars

\* The two workers of a pool of two are executing a task each, neither
\* finished yet, and the queue of capacity two is empty.
PoolConcurrencyBoundWitness ==
    /\ concurrency = 2
    /\ Cardinality(Executing) = 2
    /\ bufferCap = 2
    /\ requests = <<>>
    /\ \A c \in {wTask[w] : w \in Executing} : tExec[c] = 0

====
